---------------------------- MODULE Spec2Model ----------------------------
(***************************************************************************)
(* Conversation reconciliation engine of the clinic dashboard (the         *)
(* Evolution API service): contact identity resolution, message            *)
(* normalisation, bot attribution, the three-source merge and the          *)
(* conversation grouping, as a state machine over the provider store and   *)
(* the two log tables.                                                     *)
(*                                                                         *)
(* A JavaScript string is a sequence of one-character strings; a           *)
(* character outside ASCII is written as its code point ("u0645").         *)
(* undefined / null / "" (the falsy strings) are the empty sequence.       *)
(* A created_at column is the epoch-millisecond value its ISO text parses  *)
(* to.                                                                     *)
(***************************************************************************)
EXTENDS Integers, Sequences, FiniteSets, TLC

(***************************************************************************)
(* String and array primitives of the JavaScript runtime                   *)
(***************************************************************************)
Whitespace == {" ", "\t", "\n"}

UpperToLower ==
    [c \in {"A", "B", "C", "D", "E", "F", "G", "H", "I", "J", "K", "L", "M",
            "N", "O", "P", "Q", "R", "S", "T", "U", "V", "W", "X", "Y", "Z"} |->
        CASE c = "A" -> "a" [] c = "B" -> "b" [] c = "C" -> "c" [] c = "D" -> "d"
          [] c = "E" -> "e" [] c = "F" -> "f" [] c = "G" -> "g" [] c = "H" -> "h"
          [] c = "I" -> "i" [] c = "J" -> "j" [] c = "K" -> "k" [] c = "L" -> "l"
          [] c = "M" -> "m" [] c = "N" -> "n" [] c = "O" -> "o" [] c = "P" -> "p"
          [] c = "Q" -> "q" [] c = "R" -> "r" [] c = "S" -> "s" [] c = "T" -> "t"
          [] c = "U" -> "u" [] c = "V" -> "v" [] c = "W" -> "w" [] c = "X" -> "x"
          [] c = "Y" -> "y" [] c = "Z" -> "z"]

Min2(a, b) == IF a <= b THEN a ELSE b

Abs(x) == IF x < 0 THEN -x ELSE x

\* s.substring(from, to), 0-based, to exclusive, clamped to the length
Substring(s, from, to) == SubSeq(s, from + 1, Min2(to, Len(s)))

\* s.substring(from)
SubstringFrom(s, from) == SubSeq(s, from + 1, Len(s))

\* s.startsWith(p)
StartsWith(s, p) == Len(p) <= Len(s) /\ SubSeq(s, 1, Len(p)) = p

\* the 0-based positions at which sub occurs in s
Occurrences(s, sub) ==
    {i \in 0..(Len(s) - Len(sub)) :
        (sub = <<>> \/ s[i + 1] = sub[1]) /\ SubSeq(s, i + 1, i + Len(sub)) = sub}

\* s.includes(sub)
Includes(s, sub) == Occurrences(s, sub) # {}

\* s.indexOf(sub): the first position, -1 when absent
IndexOf(s, sub) ==
    IF Occurrences(s, sub) = {} THEN -1
    ELSE CHOOSE i \in Occurrences(s, sub) : \A j \in Occurrences(s, sub) : i <= j

\* s.replace(sub, rep) with a string pattern: the first occurrence only
ReplaceFirst(s, sub, rep) ==
    IF IndexOf(s, sub) < 0 THEN s
    ELSE SubSeq(s, 1, IndexOf(s, sub)) \o rep
            \o SubSeq(s, IndexOf(s, sub) + Len(sub) + 1, Len(s))

\* s.toLowerCase()
ToLowerCase(s) ==
    [i \in 1..Len(s) |-> IF s[i] \in DOMAIN UpperToLower THEN UpperToLower[s[i]] ELSE s[i]]

\* s.trim(): from the first to the last character that is not whitespace
Trim(s) ==
    LET Solid(i) == s[i] \notin Whitespace
    IN  IF \A i \in DOMAIN s : ~Solid(i) THEN <<>>
        ELSE SubSeq(s, CHOOSE i \in DOMAIN s : Solid(i) /\ \A j \in 1..(i - 1) : ~Solid(j),
                       CHOOSE i \in DOMAIN s : Solid(i) /\ \A j \in (i + 1)..Len(s) : ~Solid(j))

\* s.replace(/\s+/g, ' '): every maximal run of whitespace becomes one space
CollapseWhitespace(s) ==
    LET marked == [i \in DOMAIN s |->
                      [char |-> IF s[i] \in Whitespace THEN " " ELSE s[i],
                       inRun |-> s[i] \in Whitespace /\ i > 1 /\ s[i - 1] \in Whitespace]]
        StartsRun(c) == ~c.inRun
        kept == SelectSeq(marked, StartsRun)
    IN  [i \in DOMAIN kept |-> kept[i].char]

\* Array.prototype.sort((a, b) => a.timestamp - b.timestamp): stable, ascending
RECURSIVE InsertByTimestamp(_, _)
InsertByTimestamp(sorted, m) ==
    IF sorted = <<>> THEN <<m>>
    ELSE IF sorted[Len(sorted)].timestamp <= m.timestamp THEN Append(sorted, m)
    ELSE Append(InsertByTimestamp(SubSeq(sorted, 1, Len(sorted) - 1), m),
                sorted[Len(sorted)])

\* a faulty ordering that leaves the messages as they were collected
SortByTimestamp_Unsorted(msgs) == msgs

RECURSIVE SortByTimestamp(_)
SortByTimestamp(msgs) ==
    IF msgs = <<>> THEN <<>>
    ELSE InsertByTimestamp(SortByTimestamp(SubSeq(msgs, 1, Len(msgs) - 1)),
                           msgs[Len(msgs)])

\* the elements of a sequence, as a set
Range(s) == {s[i] : i \in DOMAIN s}

\* Set.prototype.add on an insertion-ordered Set
SetAdd(s, x) == IF x \in Range(s) THEN s ELSE Append(s, x)

(***************************************************************************)
(* Program constants and literals                                          *)
(***************************************************************************)
CACHE_DURATION == 60000

\* normalizeMessageContent keeps the first 100 characters
FingerprintLen == 100

\* "Within 1 minute", in the log merge and in the provider merge
LogDedupWindow == 60000

MergeDedupWindow == 60000

batchSize == 10

\* fetchBotMessages reads the 1000 most recent rows
BotQueryLimit == 1000

\* fetchGroupedConversations' default limit
DefaultLimit == 1000

SuffixWhatsapp == <<"@", "s", ".", "w", "h", "a", "t", "s", "a", "p", "p", ".", "n", "e", "t">>

SuffixLid == <<"@", "l", "i", "d">>

SuffixGroup == <<"@", "g", ".", "u", "s">>

UserMessageMarker == <<"U", "s", "e", "r", " ", "M", "e", "s", "s", "a", "g", "e", ":">>

MetadataSeparator == <<"\n", "-", "-", "-">>

CallingMarker == <<"C", "a", "l", "l", "i", "n", "g", " ">>

AIAssistantName == <<"A", "I", " ", "A", "s", "s", "i", "s", "t", "a", "n", "t">>

UnknownName == <<"U", "n", "k", "n", "o", "w", "n">>

UndefinedText == <<"u", "n", "d", "e", "f", "i", "n", "e", "d">>

DefaultDocumentLabel == <<"u0645", "u0633", "u062a", "u0646", "u062f">>

AttachmentPlaceholder == <<"ud83d", "udcce", " ", "u0645", "u0631", "u0641", "u0642">>

ContactPrefix == <<"ud83d", "udc64", " ">>

DefaultContactLabel == <<"u062c", "u0647", "u0629", " ", "u0627", "u062a", "u0635", "u0627", "u0644">>

LocationPrefix == <<"ud83d", "udccd", " ">>

DefaultReaction == <<"ud83d", "udc4d">>

botPatterns ==
    { <<"u0623", "u0647", "u0644", "u0627", "u064b">>,
      <<"u0645", "u0631", "u062d", "u0628", "u0627">>,
      <<"u0634", "u0643", "u0631", "u0627", "u064b", " ", "u0644", "u062a", "u0648", "u0627", "u0635", "u0644", "u0643">>,
      <<"u064a", "u0633", "u0639", "u062f", "u0646", "u0627", " ", "u062a", "u0630", "u0643", "u064a", "u0631", "u0643">>,
      <<"u062a", "u0645", " ", "u062d", "u062c", "u0632", " ", "u0645", "u0648", "u0639", "u062f", "u0643">>,
      <<"u062a", "u0645", " ", "u062a", "u0623", "u0643", "u064a", "u062f">>,
      <<"u062a", "u0645", " ", "u0625", "u0644", "u063a", "u0627", "u0621">>,
      <<"u0644", "u0644", "u062a", "u0623", "u0643", "u064a", "u062f", " ", "u0631", "u062f", " ", "u0628", "u0640">>,
      <<"u0623", "u0646", "u0627", " ", "u0645", "u0648", "u062c", "u0648", "u062f", "u0629", " ", "u0644", "u0648", " ", "u0639", "u0646", "u062f", "u0643">>,
      <<"u0643", "u064a", "u0641", " ", "u0623", "u0642", "u062f", "u0631", " ", "u0623", "u0633", "u0627", "u0639", "u062f", "u0643">> }

(***************************************************************************)
(* Contact identity, message normalisation, attribution                    *)
(***************************************************************************)
\* an optional field of an object: undefined reads as the falsy empty string
Field(obj, f) == IF f \in DOMAIN obj THEN obj[f] ELSE <<>>

Has(obj, f) == f \in DOMAIN obj

\* message: null
NullMessage == [isNull |-> TRUE]

extractPhoneNumber(jid, altJid) ==
    IF Includes(jid, SuffixLid) /\ altJid # <<>>
    THEN ReplaceFirst(ReplaceFirst(altJid, SuffixWhatsapp, <<>>), SuffixGroup, <<>>)
    ELSE IF Includes(jid, SuffixLid)
    THEN ReplaceFirst(jid, SuffixLid, <<>>)
    ELSE ReplaceFirst(ReplaceFirst(jid, SuffixWhatsapp, <<>>), SuffixGroup, <<>>)

Digits == <<"0", "1", "2", "3", "4", "5", "6", "7", "8", "9">>

RECURSIVE NatToString(_)
NatToString(n) ==
    IF n < 10 THEN <<Digits[n + 1]>>
    ELSE NatToString(n \div 10) \o <<Digits[(n % 10) + 1]>>

\* Number.prototype.toFixed(4) of a coordinate held in ten-thousandths of a degree
ToFixed4(v) ==
    (IF v < 0 THEN <<"-">> ELSE <<>>)
        \o NatToString(Abs(v) \div 10000) \o <<".">>
        \o <<Digits[((Abs(v) \div 1000) % 10) + 1], Digits[((Abs(v) \div 100) % 10) + 1],
             Digits[((Abs(v) \div 10) % 10) + 1], Digits[(Abs(v) % 10) + 1]>>

\* `${x?.toFixed(4)}`
CoordinateText(obj, f) == IF Has(obj, f) THEN ToFixed4(obj[f]) ELSE UndefinedText

\* a faulty normalizer that knows plain text only
extractMessageContent_TextOnly(message) ==
    IF message = NullMessage
    THEN [content |-> <<>>, mediaType |-> "other", mediaUrl |-> <<>>]
    ELSE IF Field(message, "conversation") # <<>>
    THEN [content |-> message.conversation, mediaType |-> "text", mediaUrl |-> <<>>]
    ELSE [content |-> AttachmentPlaceholder, mediaType |-> "other", mediaUrl |-> <<>>]

extractMessageContent(message) ==
    IF message = NullMessage
    THEN [content |-> <<>>, mediaType |-> "other", mediaUrl |-> <<>>]
    ELSE IF Field(message, "conversation") # <<>>
    THEN [content |-> message.conversation, mediaType |-> "text", mediaUrl |-> <<>>]
    ELSE IF Has(message, "extendedTextMessage") /\ Field(message.extendedTextMessage, "text") # <<>>
    THEN [content |-> message.extendedTextMessage.text, mediaType |-> "text", mediaUrl |-> <<>>]
    ELSE IF Has(message, "imageMessage")
    THEN [content |-> Field(message.imageMessage, "caption"), mediaType |-> "image",
          mediaUrl |-> Field(message.imageMessage, "url")]
    ELSE IF Has(message, "audioMessage")
    THEN [content |-> <<>>, mediaType |-> "audio", mediaUrl |-> Field(message.audioMessage, "url")]
    ELSE IF Has(message, "documentMessage")
    THEN [content |-> IF Field(message.documentMessage, "fileName") # <<>>
                      THEN message.documentMessage.fileName ELSE DefaultDocumentLabel,
          mediaType |-> "document", mediaUrl |-> Field(message.documentMessage, "url")]
    ELSE IF Has(message, "videoMessage")
    THEN [content |-> Field(message.videoMessage, "caption"), mediaType |-> "video",
          mediaUrl |-> Field(message.videoMessage, "url")]
    ELSE IF Has(message, "stickerMessage")
    THEN [content |-> <<>>, mediaType |-> "sticker", mediaUrl |-> Field(message.stickerMessage, "url")]
    ELSE IF Has(message, "locationMessage")
    THEN [content |-> LocationPrefix \o CoordinateText(message.locationMessage, "degreesLatitude")
                        \o <<",", " ">> \o CoordinateText(message.locationMessage, "degreesLongitude"),
          mediaType |-> "other", mediaUrl |-> <<>>]
    ELSE IF Has(message, "contactMessage")
    THEN [content |-> ContactPrefix \o (IF Field(message.contactMessage, "displayName") # <<>>
                                        THEN message.contactMessage.displayName
                                        ELSE DefaultContactLabel),
          mediaType |-> "other", mediaUrl |-> <<>>]
    ELSE IF Has(message, "reactionMessage")
    THEN [content |-> IF Field(message.reactionMessage, "text") # <<>>
                      THEN message.reactionMessage.text ELSE DefaultReaction,
          mediaType |-> "other", mediaUrl |-> <<>>]
    ELSE [content |-> AttachmentPlaceholder, mediaType |-> "other", mediaUrl |-> <<>>]

\* updates: the MessageUpdate array's status values, <<>> when absent
getMessageStatus(updates) ==
    IF updates = <<>> THEN "sent"
    ELSE CASE updates[Len(updates)] = "READ" -> "read"
           [] updates[Len(updates)] = "DELIVERY_ACK" -> "delivered"
           [] updates[Len(updates)] = "SERVER_ACK" -> "sent"
           [] OTHER -> "sent"

normalizeMessageContent(content) ==
    Substring(CollapseWhitespace(ToLowerCase(Trim(content))), 0, FingerprintLen)

\* botMessages: a Map, as a function from its keys to their Sets
\* a faulty comparison that accepts equal fingerprints only
checkIfBotMessage_ExactOnly(content, sessionId, botMessages) ==
    /\ sessionId \in DOMAIN botMessages
    /\ normalizeMessageContent(content) \in botMessages[sessionId]

checkIfBotMessage(content, sessionId, botMessages) ==
    IF sessionId \notin DOMAIN botMessages THEN FALSE
    ELSE \E botContent \in botMessages[sessionId] :
            \/ StartsWith(botContent, normalizeMessageContent(content))
            \/ StartsWith(normalizeMessageContent(content), botContent)

isFromBotPattern(msg) ==
    IF ~msg.key.fromMe THEN FALSE
    ELSE \E pattern \in botPatterns :
            Includes(ToLowerCase(extractMessageContent(msg.message).content), pattern)

isFromBot(msg) == IF ~msg.key.fromMe THEN FALSE ELSE isFromBotPattern(msg)

\* nowMs: Date.now() at the call
transformMessage(msg, nowMs) ==
    LET extracted == extractMessageContent(msg.message)
        timestamp == (IF msg.messageTimestamp # 0 THEN msg.messageTimestamp
                      ELSE nowMs \div 1000) * 1000
        phoneNumber == extractPhoneNumber(msg.key.remoteJid, msg.key.remoteJidAlt)
    IN  [id |-> IF msg.id # <<>> THEN msg.id ELSE <<"msg", nowMs>>,
         message_key_id |-> msg.key.id,
         whatsapp_number |-> phoneNumber,
         sender_name |-> IF msg.pushName # <<>> THEN msg.pushName
                         ELSE IF phoneNumber # <<>> THEN phoneNumber ELSE UnknownName,
         message_type |-> IF msg.key.fromMe THEN "outgoing" ELSE "incoming",
         message_content |-> extracted.content,
         message_media_type |-> extracted.mediaType,
         media_url |-> extracted.mediaUrl,
         timestamp |-> timestamp,
         created_at |-> timestamp,
         status |-> getMessageStatus(msg.MessageUpdate),
         is_from_bot |-> isFromBot(msg)]


(***************************************************************************)
(* The provider's other endpoints                                          *)
(***************************************************************************)
\* how a call ends: it returns a value or throws
Returned(v) == [threw |-> FALSE, value |-> v]

Thrown == [threw |-> TRUE, value |-> <<>>]

\* a faulty handler that passes the exception on
TryCatch_Rethrows(outcome, fallback) == outcome

\* try { ... } catch (error) { return fallback }
TryCatch(outcome, fallback) == IF outcome.threw THEN Returned(fallback) ELSE outcome

\* null
Null == NullMessage

\* how an HTTP exchange fails: fetch rejects, the status is not ok, the body is no JSON
HttpFailures == {"none", "network", "status", "body"}

DefaultInstanceName == "elite-shahd"

DefaultMimetype == "application/octet-stream"

fetchInstances(failure, instances) ==
    TryCatch(IF failure = "none" THEN Returned(instances) ELSE Thrown, <<>>)

fetchChats(failure, chats) ==
    TryCatch(IF failure = "none" THEN Returned(chats) ELSE Thrown, <<>>)

fetchMediaBase64(failure, data) ==
    TryCatch(IF failure = "network" THEN Thrown
             ELSE IF failure = "status" THEN Returned(Null)
             ELSE IF failure = "body" THEN Thrown
             ELSE Returned([base64 |-> Field(data, "base64"),
                            mimetype |-> IF Has(data, "mimetype") THEN data.mimetype
                                         ELSE DefaultMimetype]),
             Null)

getInstanceStats(failure, instances, instanceName) ==
    LET list == fetchInstances(failure, instances).value
        found == {i \in DOMAIN list : list[i].name = instanceName}
        instance == list[CHOOSE i \in found : \A j \in found : i <= j]
    IN  TryCatch(IF found = {} THEN Returned(Null)
                 ELSE IF ~Has(instance, "_count") THEN Thrown
                 ELSE Returned([totalMessages |-> instance._count.Message,
                                totalContacts |-> instance._count.Contact,
                                totalChats |-> instance._count.Chat,
                                connectionStatus |-> instance.connectionStatus,
                                profileName |-> instance.profileName,
                                phoneNumber |-> instance.number]),
                 Null)

(***************************************************************************)
(* The three sources, the module's cache and one request's locals          *)
(***************************************************************************)
VARIABLES
    evoStore,          \* the provider's messages, in the order findMessages returns them
    n8nStore,          \* table n8n_chat_histories, in physical order
    convStore,         \* table conversation_logs, in physical order
    now,               \* Date.now()
    botMessagesCache,  \* module variable: session_id -> Set of fingerprints
    cacheTimestamp,    \* module variable
    pc,                \* where fetchGroupedConversations stands
    down,              \* the sources that fail during this request
    botMessages,       \* local: what fetchBotMessages returned
    messagesMap,       \* local: Map phone -> ChatMessage[], in insertion order
    contactNames,      \* local: Map phone -> pushName
    processedPhones,   \* local: Set of phones, in insertion order
    missingPhones,     \* local: array
    batchIndex,        \* local: i of the batch loop
    mergeIndex,        \* local: how many processedPhones the merge loop has done
    grouped,           \* what the request returned
    lastCall,          \* the last call of another endpoint: its name, how it failed, how it ended
    inFlight,          \* the calls the request has issued and that have not resolved
    otherCall,         \* a call of fetchBotMessages by another caller, overlapping the request
    lastResult,        \* what the last request returned, while the sources stand as it read them
    mediaCache,        \* dashboard state: Map message_key_id -> { base64, mimetype }
    loadingMedia,      \* dashboard state: Set of message_key_id
    rendered,          \* the state the last render read: its closures and props hold it
    pendingEffects,    \* the messages whose MediaMessage effect has yet to run
    mediaFetches,      \* message_key_id -> calls of fetchMediaBase64 awaited by loadMedia
    failedMedia,       \* the keys whose last fetch gave no media, not clicked since
    lastEvent          \* what the dashboard did last

sources == <<evoStore, n8nStore, convStore>>

cacheVars == <<botMessagesCache, cacheTimestamp>>

locals == <<botMessages, messagesMap, contactNames, processedPhones, missingPhones,
            batchIndex, mergeIndex>>

vars == <<evoStore, n8nStore, convStore, now, botMessagesCache, cacheTimestamp, pc, down,
          botMessages, messagesMap, contactNames, processedPhones, missingPhones,
          batchIndex, mergeIndex, grouped, lastCall,
          inFlight, otherCall, lastResult,
          mediaCache, loadingMedia, rendered, pendingEffects, mediaFetches, failedMedia,
          lastEvent>>

dashboard == <<mediaCache, loadingMedia, rendered, pendingEffects, mediaFetches, failedMedia,
               lastEvent>>

\* an empty Map
EmptyMap == <<>>

\* a Map without entries, as a function
NoNames == [k \in {} |-> <<>>]

\* an insertion-ordered Map as a sequence of <<key, value>> entries
MapKeys(m) == [i \in DOMAIN m |-> m[i][1]]

MapHas(m, k) == \E i \in DOMAIN m : m[i][1] = k

MapGet(m, k) == m[CHOOSE i \in DOMAIN m : m[i][1] = k][2]

MapSet(m, k, v) ==
    IF MapHas(m, k) THEN [i \in DOMAIN m |-> IF m[i][1] = k THEN <<k, v>> ELSE m[i]]
    ELSE Append(m, <<k, v>>)

\* .order('created_at', { ascending: true }); rows with equal created_at keep the
\* table's order
RECURSIVE InsertAscending(_, _)
InsertAscending(sorted, r) ==
    IF sorted = <<>> THEN <<r>>
    ELSE IF sorted[Len(sorted)].created_at <= r.created_at THEN Append(sorted, r)
    ELSE Append(InsertAscending(SubSeq(sorted, 1, Len(sorted) - 1), r), sorted[Len(sorted)])

RECURSIVE OrderAscending(_)
OrderAscending(rows) ==
    IF rows = <<>> THEN <<>>
    ELSE InsertAscending(OrderAscending(SubSeq(rows, 1, Len(rows) - 1)), rows[Len(rows)])

\* .order('created_at', { ascending: false }): rows of one created_at stay in the
\* table's order
OrderDescending(rows) == SortSeq(rows, LAMBDA a, b : a.created_at > b.created_at)

\* fetchMessages(instanceName, { limit }): the first page, records without key or
\* remoteJid filtered out; the empty list when the request fails
fetchMessages(store, limit, failed) ==
    IF "evo" \in failed THEN <<>>
    ELSE LET Valid(msg) == msg.key.remoteJid # <<>>
         IN  SelectSeq(Substring(store, 0, limit), Valid)

\* the Map fetchBotMessages builds from the rows it read
BuildBotMessages(rows) ==
    LET ai == {i \in DOMAIN rows : rows[i].message.type = "ai" /\ rows[i].message.content # <<>>}
    IN  [sessionId \in {rows[i].session_id : i \in ai} |->
            {normalizeMessageContent(rows[i].message.content) :
                i \in {j \in ai : rows[j].session_id = sessionId}}]

CacheIsFresh(nowMs, cache, stamp) == nowMs - stamp < CACHE_DURATION /\ DOMAIN cache # {}

\* a rebuild that drops the cache when the read fails
RebuildBotMessages_ClearsOnFailure(nowMs, cache, stamp, store, failed) ==
    IF "n8n" \in failed
    THEN [result |-> BuildBotMessages(<<>>), cache |-> BuildBotMessages(<<>>), stamp |-> 0]
    ELSE LET newCache == BuildBotMessages(Substring(OrderDescending(store), 0, BotQueryLimit))
         IN  [result |-> newCache, cache |-> newCache, stamp |-> nowMs]

\* a rebuild that returns the whole map but has filled the cache with the first row only
RebuildBotMessages_PartialCache(nowMs, cache, stamp, store, failed) ==
    IF "n8n" \in failed
    THEN [result |-> cache, cache |-> cache, stamp |-> stamp]
    ELSE LET rows == Substring(OrderDescending(store), 0, BotQueryLimit)
         IN  [result |-> BuildBotMessages(rows),
              cache |-> BuildBotMessages(Substring(rows, 0, 1)),
              stamp |-> nowMs]

\* the query and what follows it; nowMs is the clock when the query resolves
RebuildBotMessages(nowMs, cache, stamp, store, failed) ==
    IF "n8n" \in failed
    THEN [result |-> cache, cache |-> cache, stamp |-> stamp]
    ELSE LET newCache == BuildBotMessages(Substring(OrderDescending(store), 0, BotQueryLimit))
         IN  [result |-> newCache, cache |-> newCache, stamp |-> nowMs]

\* fetchBotMessages: [result, cache, stamp], the returned Map and the module
\* variables after the call
fetchBotMessages(nowMs, cache, stamp, store, failed) ==
    IF CacheIsFresh(nowMs, cache, stamp)
    THEN [result |-> cache, cache |-> cache, stamp |-> stamp]
    ELSE RebuildBotMessages(nowMs, cache, stamp, store, failed)

RECURSIVE AddAll(_, _)
AddAll(set, keys) ==
    IF keys = <<>> THEN set
    ELSE AddAll(IF Head(keys) # <<>> THEN SetAdd(set, Head(keys)) ELSE set, Tail(keys))

\* a faulty reader whose first failing query ends the function with the Set as it stands
fetchAllConversationNumbers_AbortsOnFailure(n8n, conv, failed) ==
    IF "n8n" \in failed THEN <<>>
    ELSE LET chatHistories == OrderDescending(n8n)
             convLogs == IF "conv" \in failed THEN <<>> ELSE OrderDescending(conv)
             fromChat == AddAll(<<>>, [i \in DOMAIN chatHistories |-> chatHistories[i].session_id])
         IN  AddAll(fromChat, [i \in DOMAIN convLogs |-> convLogs[i].whatsapp_number])

\* fetchAllConversationNumbers: the Set, in insertion order
fetchAllConversationNumbers(n8n, conv, failed) ==
    LET chatHistories == IF "n8n" \in failed THEN <<>> ELSE OrderDescending(n8n)
        convLogs == IF "conv" \in failed THEN <<>> ELSE OrderDescending(conv)
        fromChat == AddAll(<<>>, [i \in DOMAIN chatHistories |-> chatHistories[i].session_id])
    IN  AddAll(fromChat, [i \in DOMAIN convLogs |-> convLogs[i].whatsapp_number])

\* the text of a generation-log row as fetchSupabaseMessages shows it
ExtractUserMessage(row) ==
    LET content == row.message.content
        startIndex == IndexOf(content, UserMessageMarker) + Len(UserMessageMarker)
        endIndex == IndexOf(content, MetadataSeparator)
    IN  IF row.message.type = "human" /\ Includes(content, UserMessageMarker)
        THEN IF endIndex > startIndex THEN Trim(Substring(content, startIndex, endIndex))
             ELSE Trim(SubstringFrom(content, startIndex))
        ELSE content

IsSkippedContent(content) ==
    \/ content = <<>>
    \/ Includes(content, CallingMarker)
    \/ StartsWith(content, <<"{">>)

ChatHistoryMessage(row, phoneNumber) ==
    [id |-> <<"n8n", row.id>>,
     message_key_id |-> <<"n8n", row.id>>,
     whatsapp_number |-> phoneNumber,
     sender_name |-> IF row.message.type = "human" THEN phoneNumber ELSE AIAssistantName,
     message_type |-> IF row.message.type = "ai" THEN "outgoing" ELSE "incoming",
     message_content |-> ExtractUserMessage(row),
     message_media_type |-> "text",
     media_url |-> <<>>,
     timestamp |-> row.created_at,
     created_at |-> row.created_at,
     status |-> "read",
     is_from_bot |-> row.message.type = "ai"]

RECURSIVE PushChatHistories(_, _, _)
PushChatHistories(messages, rows, phoneNumber) ==
    IF rows = <<>> THEN messages
    ELSE LET row == Head(rows)
             shown == row.message.content # <<>> /\ row.message.type # "tool"
                        /\ ~IsSkippedContent(ExtractUserMessage(row))
         IN  PushChatHistories(
                IF shown THEN Append(messages, ChatHistoryMessage(row, phoneNumber)) ELSE messages,
                Tail(rows), phoneNumber)

ConversationLogMessage(row, phoneNumber) ==
    [id |-> <<"conv", row.id>>,
     message_key_id |-> <<"conv", row.id>>,
     whatsapp_number |-> phoneNumber,
     sender_name |-> IF row.message_type = "incoming" THEN phoneNumber ELSE AIAssistantName,
     message_type |-> row.message_type,
     message_content |-> row.message_content,
     message_media_type |-> "text",
     media_url |-> <<>>,
     timestamp |-> row.created_at,
     created_at |-> row.created_at,
     status |-> IF row.resolved THEN "read" ELSE "delivered",
     is_from_bot |-> row.is_bot_question]

\* the `exists` test of the conversation_logs loop
LogDuplicate(m, row) ==
    /\ normalizeMessageContent(m.message_content) = normalizeMessageContent(row.message_content)
    /\ Abs(m.created_at - row.created_at) < LogDedupWindow

RECURSIVE PushConversationLogs(_, _, _)
PushConversationLogs(messages, rows, phoneNumber) ==
    IF rows = <<>> THEN messages
    ELSE LET row == Head(rows)
             exists == \E i \in DOMAIN messages : LogDuplicate(messages[i], row)
         IN  PushConversationLogs(
                IF ~exists /\ row.message_content # <<>>
                THEN Append(messages, ConversationLogMessage(row, phoneNumber)) ELSE messages,
                Tail(rows), phoneNumber)

fetchSupabaseMessages(phoneNumber, n8n, conv, failed) ==
    LET OfSession(row) == row.session_id = phoneNumber
        OfNumber(row) == row.whatsapp_number = phoneNumber
        chatHistories == IF "n8n" \in failed THEN <<>>
                         ELSE OrderAscending(SelectSeq(n8n, OfSession))
        convLogs == IF "conv" \in failed THEN <<>>
                    ELSE OrderAscending(SelectSeq(conv, OfNumber))
    IN  SortByTimestamp(
            PushConversationLogs(PushChatHistories(<<>>, chatHistories, phoneNumber),
                                 convLogs, phoneNumber))


(***************************************************************************)
(* fetchGroupedConversations, between its awaits                           *)
(***************************************************************************)
\* a filter that lets every transformed message through
IsEmptyMessage_Never(transformed) == FALSE

\* the test that skips messages with empty content
IsEmptyMessage(transformed) ==
    transformed.message_content = <<>> /\ transformed.message_media_type = "other"

\* the forEach over rawMessages: groups = [map, names, phones]
RECURSIVE GroupProviderMessages(_, _, _, _)
GroupProviderMessages(groups, rawMessages, bots, nowMs) ==
    IF rawMessages = <<>> THEN groups
    ELSE LET msg == Head(rawMessages)
             transformed == transformMessage(msg, nowMs)
             phone == transformed.whatsapp_number
             classified ==
                 IF transformed.message_type = "outgoing"
                 THEN [transformed EXCEPT
                          !.is_from_bot = checkIfBotMessage(transformed.message_content, phone, bots)]
                 ELSE transformed
             skipped ==
                 \/ Includes(msg.key.remoteJid, SuffixGroup)
                 \/ Includes(msg.key.remoteJid, SuffixLid) /\ msg.key.remoteJidAlt = <<>>
                 \/ IsEmptyMessage(transformed)
             existing == IF MapHas(groups.map, phone) THEN MapGet(groups.map, phone) ELSE <<>>
         IN  GroupProviderMessages(
                IF skipped THEN groups
                ELSE [map |-> MapSet(groups.map, phone, Append(existing, classified)),
                      names |-> IF ~msg.key.fromMe /\ msg.pushName # <<>>
                                THEN [k \in DOMAIN groups.names \cup {phone} |->
                                         IF k = phone THEN msg.pushName ELSE groups.names[k]]
                                ELSE groups.names,
                      phones |-> SetAdd(groups.phones, phone)],
                Tail(rawMessages), bots, nowMs)

\* the `exists` test of the provider merge
\* a faulty comparison that ignores the time between the two copies
MergeDuplicate_AnyTime(m, sbMsg) ==
    normalizeMessageContent(m.message_content) = normalizeMessageContent(sbMsg.message_content)

MergeDuplicate(m, sbMsg) ==
    /\ normalizeMessageContent(m.message_content) = normalizeMessageContent(sbMsg.message_content)
    /\ Abs(m.timestamp - sbMsg.timestamp) < MergeDedupWindow

\* a faulty merge that keeps the log record of a duplicated pair
MergeSupabaseMessages_LogWins(existingMessages, supabaseMessages) ==
    LET Unmatched(m) == \A i \in DOMAIN supabaseMessages : ~MergeDuplicate(m, supabaseMessages[i])
    IN  SelectSeq(existingMessages, Unmatched) \o supabaseMessages

RECURSIVE MergeSupabaseMessages(_, _)
MergeSupabaseMessages(existingMessages, supabaseMessages) ==
    IF supabaseMessages = <<>> THEN existingMessages
    ELSE LET sbMsg == Head(supabaseMessages)
             exists == \E i \in DOMAIN existingMessages : MergeDuplicate(existingMessages[i], sbMsg)
         IN  MergeSupabaseMessages(
                IF exists THEN existingMessages ELSE Append(existingMessages, sbMsg),
                Tail(supabaseMessages))

\* one batch of the backfill loop: the results of its fetches set into the Map
\* a faulty backfill that stores nothing
SetBatchResults_Nothing(map, batch, n8n, conv, failed) == map

RECURSIVE SetBatchResults(_, _, _, _, _)
SetBatchResults(map, batch, n8n, conv, failed) ==
    IF batch = <<>> THEN map
    ELSE LET messages == fetchSupabaseMessages(Head(batch), n8n, conv, failed)
         IN  SetBatchResults(IF Len(messages) > 0 THEN MapSet(map, Head(batch), messages) ELSE map,
                             Tail(batch), n8n, conv, failed)

\* a faulty count that takes every incoming message for unread
UnreadCount_AllIncoming(messages) ==
    Cardinality({i \in DOMAIN messages : messages[i].message_type = "incoming"})

UnreadCount(messages) ==
    Cardinality({i \in DOMAIN messages :
                    messages[i].message_type = "incoming" /\ messages[i].status # "read"})

\* grouped.sort((a, b) => b.last_message.timestamp - a.last_message.timestamp)
RECURSIVE InsertNewestFirst(_, _)
InsertNewestFirst(sorted, g) ==
    IF sorted = <<>> THEN <<g>>
    ELSE IF sorted[Len(sorted)].last_message.timestamp >= g.last_message.timestamp
    THEN Append(sorted, g)
    ELSE Append(InsertNewestFirst(SubSeq(sorted, 1, Len(sorted) - 1), g), sorted[Len(sorted)])

\* a faulty ordering that leaves the conversations as they were collected
SortNewestFirst_Unsorted(groups) == groups

RECURSIVE SortNewestFirst(_)
SortNewestFirst(groups) ==
    IF groups = <<>> THEN <<>>
    ELSE InsertNewestFirst(SortNewestFirst(SubSeq(groups, 1, Len(groups) - 1)), groups[Len(groups)])

\* a conversation that takes its oldest message for the last one
GroupedConversation_OldestAsLast(phone, messages, names) ==
    [whatsapp_number |-> phone,
     contact_name |-> IF phone \in DOMAIN names /\ names[phone] # <<>> THEN names[phone] ELSE phone,
     messages |-> SortByTimestamp(messages),
     last_message |-> SortByTimestamp(messages)[1],
     unread_count |-> UnreadCount(messages)]

GroupedConversation(phone, messages, names) ==
    [whatsapp_number |-> phone,
     contact_name |-> IF phone \in DOMAIN names /\ names[phone] # <<>> THEN names[phone] ELSE phone,
     messages |-> SortByTimestamp(messages),
     last_message |-> SortByTimestamp(messages)[Len(messages)],
     unread_count |-> UnreadCount(messages)]

\* the messagesMap.forEach that builds the list, and its final sort
RECURSIVE PushGrouped(_, _, _)
PushGrouped(acc, map, names) ==
    IF map = <<>> THEN acc
    ELSE PushGrouped(IF Len(Head(map)[2]) = 0 THEN acc
                     ELSE Append(acc, GroupedConversation(Head(map)[1], Head(map)[2], names)),
                     Tail(map), names)

BuildGrouped(map, names) == SortNewestFirst(PushGrouped(<<>>, map, names))

\* the batch loop, from index i on
RECURSIVE BackfillFrom(_, _, _, _, _, _)
BackfillFrom(map, missing, i, n8n, conv, failed) ==
    IF i >= Len(missing) THEN map
    ELSE BackfillFrom(SetBatchResults(map, Substring(missing, i, i + batchSize), n8n, conv, failed),
                      missing, i + batchSize, n8n, conv, failed)

\* the merge loop over processedPhones
RECURSIVE MergeAll(_, _, _, _, _)
MergeAll(map, phones, n8n, conv, failed) ==
    IF phones = <<>> THEN map
    ELSE LET phone == Head(phones)
             supabaseMessages == fetchSupabaseMessages(phone, n8n, conv, failed)
             existingMessages == IF MapHas(map, phone) THEN MapGet(map, phone) ELSE <<>>
         IN  MergeAll(MapSet(map, phone,
                             SortByTimestamp(MergeSupabaseMessages(existingMessages,
                                                                   supabaseMessages))),
                      Tail(phones), n8n, conv, failed)

\* what fetchGroupedConversations returns when the stores do not change while it runs:
\* bots is what fetchBotMessages gave it, nowMs the clock, failed the sources that fail
fetchGroupedConversations(evo, n8n, conv, bots, nowMs, failed) ==
    LET rawMessages == fetchMessages(evo, DefaultLimit, failed)
        allConversationNumbers == fetchAllConversationNumbers(n8n, conv, failed)
        groups == GroupProviderMessages([map |-> EmptyMap, names |-> NoNames, phones |-> <<>>],
                                        rawMessages, bots, nowMs)
        NotProcessed(phone) == phone \notin Range(groups.phones)
        missing == SelectSeq(allConversationNumbers, NotProcessed)
        backfilled == BackfillFrom(groups.map, missing, 0, n8n, conv, failed)
    IN  BuildGrouped(MergeAll(backfilled, groups.phones, n8n, conv, failed), groups.names)


(***************************************************************************)
(* Bounds and the inputs the environment draws from                        *)
(***************************************************************************)
MaxEvo == 2

MaxN8n == 1

MaxConv == 1

MaxTicks == 2

\* the most rows of n8n_chat_histories in the cache cases: a row before and a row after
\* the cache was built
MaxRows == 2

\* the most contacts the logs hold in the batching cases: more than one batch
\* the calls of fetchMediaBase64 that may be awaited at once for one message
MaxFetches == 2

MaxContacts == 12

\* Date.now() of the first state, later than every message of the inputs
StartTime == 2000000

\* how far one step of the clock advances it
TickMs == 40000

PhoneA == <<"9", "7", "1", "5", "0", "1", "2", "3", "4", "5", "6", "7">>

PhoneB == <<"9", "7", "1", "5", "0", "0", "0", "0", "0", "0", "0", "1">>

LinkedId == <<"8", "8", "3", "9", "2", "0", "1">>

GroupId == <<"1", "2", "3", "4">>

TextHi == <<"H", "i">>

TextHiSpaced == <<" ", "h", "i", " ">>

TextHiThere == <<"h", "i", " ", " ", "T", "h", "e", "r", "e">>

TextOk == <<"o", "k">>

TextGreeting == <<"u0645", "u0631", "u062d", "u0628", "u0627", " ", "A", "l", "i">>

EvoRecord(remoteJid, remoteJidAlt, fromMe, pushName, message, seconds, updates) ==
    [id |-> <<>>,
     key |-> [id |-> <<>>, fromMe |-> fromMe, remoteJid |-> remoteJid, remoteJidAlt |-> remoteJidAlt],
     pushName |-> pushName,
     message |-> message,
     messageTimestamp |-> seconds,
     MessageUpdate |-> updates]

N8nRow(sessionId, type, content, createdAt) ==
    [id |-> 0, session_id |-> sessionId, message |-> [type |-> type, content |-> content],
     created_at |-> createdAt]

ConvRow(number, type, content, createdAt, isBotQuestion, resolved) ==
    [id |-> 0, whatsapp_number |-> number, message_type |-> type, message_content |-> content,
     created_at |-> createdAt, is_bot_question |-> isBotQuestion, resolved |-> resolved]

\* a 140-character assistant reply, and what an upstream system that keeps 100
\* characters shows of it
TextLong140 == [i \in 1..140 |-> IF i % 7 = 0 THEN " " ELSE IF i % 2 = 0 THEN "B" ELSE "a"]

TextLong100 == SubSeq(TextLong140, 1, 100)

\* the default inputs: one contact seen by the provider and by both logs, texts that
\* normalize alike or extend one another, 30 seconds, 1, 4.5 and 5 minutes apart;
\* one contact known to the logs only
EvoInputs ==
    {EvoRecord(PhoneA \o SuffixWhatsapp, <<>>, fromMe, <<>>, [conversation |-> TextHi], seconds, <<>>) :
        fromMe \in BOOLEAN, seconds \in {1000, 1240}}
    \cup
    {EvoRecord(PhoneB \o SuffixWhatsapp, <<>>, FALSE, <<>>, NullMessage, 1000, <<>>)}

N8nInputs ==
    {N8nRow(PhoneA, "ai", TextHiSpaced, 1030000),
     N8nRow(PhoneA, "ai", TextHiSpaced, 1300000),
     N8nRow(PhoneA, "ai", TextHiThere, 1030000),
     N8nRow(PhoneB, "ai", TextOk, 1030000),
     N8nRow(PhoneA, "tool", TextOk, 1030000)}

ConvInputs ==
    {ConvRow(PhoneA, "outgoing", TextHiSpaced, 1300000, TRUE, FALSE),
     ConvRow(PhoneA, "incoming", TextOk, 1030000, TRUE, TRUE),
     ConvRow(PhoneB, "outgoing", TextOk, 1300000, FALSE, FALSE)}

\* the k-th contact of the batching cases
ContactPhone(k) ==
    <<"9", "7", "1", "5", "0", "0", "0", "0", "1", "0">> \o <<Digits[(k \div 10) + 1], Digits[(k % 10) + 1]>>

\* how many contacts the logs hold: one, a full batch, and more than a batch
ContactCounts == {1, batchSize, MaxContacts - 1, MaxContacts}

\* inputs of the batching cases: two contacts the provider returns
EvoBatchInputs ==
    {EvoRecord(PhoneA \o SuffixWhatsapp, <<>>, FALSE, <<>>, [conversation |-> TextHi], 1000, <<>>),
     EvoRecord(PhoneB \o SuffixWhatsapp, <<>>, FALSE, <<>>, [conversation |-> TextOk], 1240, <<>>)}

\* inputs of the cache cases: a staff text the assistant also wrote, and a provider
\* record without messageTimestamp
EvoClockInputs ==
    {EvoRecord(PhoneA \o SuffixWhatsapp, <<>>, TRUE, <<>>, [conversation |-> TextHi], 1000, <<>>),
     EvoRecord(PhoneA \o SuffixWhatsapp, <<>>, FALSE, <<>>, [conversation |-> TextOk], 0, <<>>)}

N8nClockInputs ==
    {N8nRow(PhoneB, "ai", TextOk, 1030000),
     N8nRow(PhoneA, "ai", TextHiSpaced, 1300000)}

\* the read of n8n_chat_histories succeeds or fails
CacheFailures == {{}, {"n8n"}}

\* inputs of the query window cases: a contact's assistant row, and later rows of
\* another contact or of another role, as many as the query reads
N8nWindowInputs ==
    {N8nRow(PhoneA, "ai", TextHiSpaced, 1030000),
     N8nRow(PhoneB, "ai", TextOk, 1030000)}

N8nLaterInputs ==
    {N8nRow(PhoneB, "ai", TextOk, 1300000),
     N8nRow(PhoneA, "human", TextOk, 1300000)}

LaterCounts == {BotQueryLimit - 1, BotQueryLimit}

\* inputs of the merge cases: one contact; a provider reply and an unrelated provider
\* message; generation-log rows with the reply's text 30 and 60 seconds after it, and
\* a row written at the same instant as another; two outgoing-log rows of one instant
\* and one text that differ in their flags
EvoMergeInputs ==
    {EvoRecord(PhoneA \o SuffixWhatsapp, <<>>, TRUE, <<>>, [conversation |-> TextOk], 1000, <<>>),
     EvoRecord(PhoneA \o SuffixWhatsapp, <<>>, FALSE, <<>>, [conversation |-> TextHi], 1000, <<>>)}

N8nMergeInputs ==
    {N8nRow(PhoneA, "ai", TextOk, 1030000),
     N8nRow(PhoneA, "ai", TextOk, 1060000),
     N8nRow(PhoneA, "human", TextHi, 1060000)}

ConvMergeInputs ==
    {ConvRow(PhoneA, "outgoing", TextOk, 1060000, TRUE, FALSE),
     ConvRow(PhoneA, "outgoing", TextOk, 1060000, FALSE, TRUE)}

\* every source is read
NoFailure == {{}}

\* no source, or one of the three, fails during a request
FailureModes == {{}, {"evo"}, {"n8n"}, {"conv"}}

\* inputs of the single-failure cases: one contact seen by every source, one by the
\* logs only
EvoDegradedInputs ==
    {EvoRecord(PhoneA \o SuffixWhatsapp, <<>>, FALSE, <<>>, [conversation |-> TextHi], 1000, <<>>),
     EvoRecord(PhoneA \o SuffixWhatsapp, <<>>, TRUE, <<>>, [conversation |-> TextHi], 1240, <<>>)}

N8nDegradedInputs ==
    {N8nRow(PhoneA, "ai", TextHiSpaced, 1030000),
     N8nRow(PhoneB, "ai", TextOk, 1030000)}

ConvDegradedInputs ==
    {ConvRow(PhoneA, "outgoing", TextHiSpaced, 1300000, TRUE, FALSE),
     ConvRow(PhoneB, "outgoing", TextOk, 1300000, FALSE, FALSE)}

\* inputs of the failure cases: the default ones and a staff greeting
EvoFailureInputs ==
    EvoInputs \cup
    {EvoRecord(PhoneA \o SuffixWhatsapp, <<>>, TRUE, <<>>, [conversation |-> TextGreeting], 1000, <<>>)}

\* inputs of the identity cases: every form of identifier the provider and the logs use
EvoIdentityInputs ==
    {EvoRecord(PhoneA \o SuffixWhatsapp, <<>>, FALSE, <<>>, [conversation |-> TextHi], 1000, <<>>),
     EvoRecord(LinkedId \o SuffixLid, PhoneA \o SuffixWhatsapp, FALSE, <<"A", "l", "i">>,
               [conversation |-> TextHi], 1000, <<"READ">>),
     EvoRecord(LinkedId \o SuffixLid, <<>>, FALSE, <<>>, [conversation |-> TextHi], 1000, <<>>),
     EvoRecord(GroupId \o SuffixGroup, <<>>, FALSE, <<>>, [conversation |-> TextHi], 1000, <<>>),
     EvoRecord(LinkedId \o SuffixLid, GroupId \o SuffixGroup, FALSE, <<>>,
               [conversation |-> TextHi], 1000, <<>>)}

N8nIdentityInputs ==
    {N8nRow(PhoneA, "ai", TextOk, 1030000),
     N8nRow(PhoneA \o SuffixWhatsapp, "ai", TextOk, 1030000)}

ConvIdentityInputs ==
    {ConvRow(PhoneA, "outgoing", TextOk, 1300000, TRUE, FALSE),
     ConvRow(PhoneB, "outgoing", TextOk, 1300000, TRUE, FALSE)}

\* inputs of the attribution cases: staff and assistant texts of one contact
EvoAttributionInputs ==
    {EvoRecord(PhoneA \o SuffixWhatsapp, <<>>, TRUE, <<>>, [conversation |-> text], 1000, <<>>) :
        text \in {TextLong100, TextHi, TextHiThere, TextOk}}
    \cup
    {EvoRecord(PhoneA \o SuffixWhatsapp, <<>>, FALSE, <<>>, [conversation |-> TextLong100], 1000, <<>>)}

N8nAttributionInputs ==
    {N8nRow(PhoneA, type, TextLong140, 1300000) : type \in {"ai", "human"}}
    \cup
    {N8nRow(PhoneA, "ai", text, 1300000) : text \in {TextHiSpaced, TextHiThere}}
    \cup
    {N8nRow(PhoneB, "ai", TextOk, 1300000)}

ConvAttributionInputs ==
    {ConvRow(PhoneA, "outgoing", TextLong140, 1030000, TRUE, FALSE)}

\* inputs of the payload cases: every shape the provider tags a message with, alone,
\* and each shape together with the one the resolution order puts after it
TextHello == <<"h", "e", "l", "l", "o">>

MediaUrl == <<"u", "r", "l">>

PayloadShapes ==
    {NullMessage,
     [conversation |-> TextHi],
     [extendedTextMessage |-> [text |-> TextOk]],
     [imageMessage |-> [caption |-> TextHello]],
     [imageMessage |-> [url |-> MediaUrl]],
     [audioMessage |-> [url |-> MediaUrl]],
     [documentMessage |-> [url |-> MediaUrl]],
     [documentMessage |-> [fileName |-> TextOk, url |-> MediaUrl]],
     [videoMessage |-> [url |-> MediaUrl]],
     [stickerMessage |-> [url |-> MediaUrl]],
     [locationMessage |-> [degreesLatitude |-> 252048, degreesLongitude |-> 552708]],
     [contactMessage |-> [displayName |-> TextOk]],
     [reactionMessage |-> [text |-> TextOk]],
     [protocolMessage |-> [type |-> TextOk]]}

PayloadPairs ==
    {[conversation |-> TextHi, extendedTextMessage |-> [text |-> TextOk]],
     [extendedTextMessage |-> [text |-> TextOk], imageMessage |-> [caption |-> TextHello]],
     [imageMessage |-> [caption |-> TextHello], audioMessage |-> [url |-> MediaUrl]],
     [audioMessage |-> [url |-> MediaUrl], documentMessage |-> [url |-> MediaUrl]],
     [documentMessage |-> [url |-> MediaUrl], videoMessage |-> [url |-> MediaUrl]],
     [videoMessage |-> [url |-> MediaUrl], stickerMessage |-> [url |-> MediaUrl]],
     [stickerMessage |-> [url |-> MediaUrl],
      locationMessage |-> [degreesLatitude |-> 252048, degreesLongitude |-> 552708]],
     [locationMessage |-> [degreesLatitude |-> 252048, degreesLongitude |-> 552708],
      contactMessage |-> [displayName |-> TextOk]],
     [contactMessage |-> [displayName |-> TextOk], reactionMessage |-> [text |-> TextOk]]}

EvoPayloadInputs ==
    {EvoRecord(PhoneA \o SuffixWhatsapp, <<>>, FALSE, <<>>, message, 1000, <<>>) :
        message \in PayloadShapes \cup PayloadPairs}

N8nPayloadInputs == {N8nRow(PhoneB, "ai", TextOk, 1030000)}

ConvPayloadInputs == {ConvRow(PhoneB, "outgoing", TextOk, 1300000, FALSE, FALSE)}

\* inputs of the content cases: provider records without a payload and with a voice note,
\* log rows without content
AudioPayload == [audioMessage |-> [url |-> MediaUrl]]

EvoContentInputs ==
    {EvoRecord(PhoneA \o SuffixWhatsapp, <<>>, FALSE, <<>>, NullMessage, 1000, <<>>),
     EvoRecord(PhoneA \o SuffixWhatsapp, <<>>, TRUE, <<>>, AudioPayload, 1240, <<>>),
     EvoRecord(PhoneA \o SuffixWhatsapp, <<>>, TRUE, <<>>, [conversation |-> TextHi], 1000, <<>>),
     EvoRecord(PhoneB \o SuffixWhatsapp, <<>>, FALSE, <<>>, NullMessage, 1000, <<>>)}

N8nContentInputs ==
    {N8nRow(PhoneA, "ai", TextOk, 1030000),
     N8nRow(PhoneB, "ai", <<>>, 1030000)}

ConvContentInputs ==
    {ConvRow(PhoneA, "outgoing", TextOk, 1300000, FALSE, FALSE),
     ConvRow(PhoneB, "outgoing", <<>>, 1300000, FALSE, FALSE)}

\* inputs of the endpoint cases: any of the three sources may fail, alone or together
FailureCombinations == SUBSET {"evo", "n8n", "conv"}

EvoEndpointInputs ==
    {EvoRecord(PhoneA \o SuffixWhatsapp, <<>>, FALSE, <<>>, [conversation |-> TextHi], 1000, <<>>)}

InstanceRecord(name) ==
    [name |-> name, connectionStatus |-> "open", profileName |-> TextOk, number |-> PhoneA,
     _count |-> [Message |-> 3, Contact |-> 2, Chat |-> 1]]

\* lists of instances: none, the default one, another one, one without its counters
InstanceLists ==
    {<<>>, <<InstanceRecord(DefaultInstanceName)>>, <<InstanceRecord("other")>>,
     <<[name |-> DefaultInstanceName]>>}

ChatLists == {<<>>, <<[id |-> "chat", remoteJid |-> PhoneA \o SuffixWhatsapp]>>}

MediaBodies == {[base64 |-> TextOk, mimetype |-> "image/png"], [base64 |-> TextOk], <<>>}

(***************************************************************************)
(* The state machine                                                       *)
(***************************************************************************)
EmptyBotMessages == BuildBotMessages(<<>>)

NoCall == [name |-> "none"]

\* the messages of the conversation the dashboard shows: an image, a voice note and a
\* text
SelectedMessages ==
    <<[message_key_id |-> <<"key", 1>>, message_media_type |-> "image"],
      [message_key_id |-> <<"key", 2>>, message_media_type |-> "audio"],
      [message_key_id |-> <<"n8n", 1>>, message_media_type |-> "text"]>>

MessageKeys == {SelectedMessages[i].message_key_id : i \in DOMAIN SelectedMessages}

\* the messages the list renders a MediaMessage for
MediaElements ==
    {i \in DOMAIN SelectedMessages :
        SelectedMessages[i].message_media_type \notin {"text", "other"}}

NoEvent == [kind |-> "none"]

\* no other caller has called fetchBotMessages
NoOtherCall == [state |-> "none", overlapped |-> FALSE, result |-> <<>>]

\* no request has returned since the sources last changed
NoResult == [returned |-> FALSE, grouped |-> <<>>]

Init ==
    /\ evoStore = <<>>
    /\ n8nStore = <<>>
    /\ convStore = <<>>
    /\ now = StartTime
    /\ botMessagesCache = EmptyBotMessages
    /\ cacheTimestamp = 0
    /\ pc = "idle"
    /\ down = {}
    /\ botMessages = EmptyBotMessages
    /\ messagesMap = EmptyMap
    /\ contactNames = NoNames
    /\ processedPhones = <<>>
    /\ missingPhones = <<>>
    /\ batchIndex = 0
    /\ mergeIndex = 0
    /\ grouped = <<>>
    /\ lastCall = NoCall
    /\ inFlight = {}
    /\ otherCall = NoOtherCall
    /\ lastResult = NoResult
    /\ mediaCache = EmptyMap
    /\ loadingMedia = {}
    /\ rendered = [mediaCache |-> EmptyMap, loadingMedia |-> {}]
    /\ pendingEffects = MediaElements
    /\ mediaFetches = [key \in MessageKeys |-> 0]
    /\ failedMedia = {}
    /\ lastEvent = NoEvent

\* the provider records a message
ProviderStores(msg) ==
    /\ pc = "idle"
    /\ Len(evoStore) < MaxEvo
    /\ evoStore' = Append(evoStore,
                          [msg EXCEPT !.id = <<"evo", Len(evoStore) + 1>>,
                                      !.key.id = <<"key", Len(evoStore) + 1>>])
    /\ UNCHANGED <<dashboard, n8nStore, convStore, now, cacheVars, pc, down, locals, grouped, lastCall, inFlight, otherCall>>
    /\ lastResult' = NoResult

\* the automation pipeline writes a row of n8n_chat_histories
N8nStoresUpTo(row, most) ==
    /\ pc = "idle"
    /\ Len(n8nStore) < most
    /\ n8nStore' = Append(n8nStore, [row EXCEPT !.id = Len(n8nStore) + 1])
    /\ UNCHANGED <<dashboard, evoStore, convStore, now, cacheVars, pc, down, locals, grouped, lastCall, inFlight, otherCall>>
    /\ lastResult' = NoResult

N8nStores(row) == N8nStoresUpTo(row, MaxN8n)

\* the automation pipeline writes a row of conversation_logs
ConvStoresUpTo(row, most) ==
    /\ pc = "idle"
    /\ Len(convStore) < most
    /\ convStore' = Append(convStore, [row EXCEPT !.id = Len(convStore) + 1])
    /\ UNCHANGED <<dashboard, evoStore, n8nStore, now, cacheVars, pc, down, locals, grouped, lastCall, inFlight, otherCall>>
    /\ lastResult' = NoResult

ConvStores(row) == ConvStoresUpTo(row, MaxConv)

\* the automation pipeline has written one assistant row for each of count contacts
N8nStoresContacts(count) ==
    /\ pc = "idle"
    /\ n8nStore = <<>>
    /\ n8nStore' = [k \in 1..count |->
                        [N8nRow(ContactPhone(k), "ai", TextOk, 1030000 + k) EXCEPT !.id = k]]
    /\ UNCHANGED <<dashboard, evoStore, convStore, now, cacheVars, pc, down, locals, grouped, lastCall, inFlight, otherCall>>
    /\ lastResult' = NoResult

\* the automation pipeline has written count rows alike, one after another
N8nStoresMany(row, count) ==
    /\ pc = "idle"
    /\ Len(n8nStore) + count <= BotQueryLimit + 1
    /\ n8nStore' = n8nStore \o
                        [k \in 1..count |->
                            [row EXCEPT !.id = Len(n8nStore) + k, !.created_at = row.created_at + k]]
    /\ UNCHANGED <<dashboard, evoStore, convStore, now, cacheVars, pc, down, locals, grouped, lastCall, inFlight, otherCall>>
    /\ lastResult' = NoResult

\* time passes between requests
Tick ==
    /\ pc = "idle"
    /\ now < StartTime + MaxTicks * TickMs
    /\ now' = now + TickMs
    /\ UNCHANGED <<dashboard, sources, cacheVars, pc, down, locals, grouped, lastCall, inFlight, otherCall, lastResult>>

requestVars == <<sources, now, cacheVars, pc, down, locals, grouped, inFlight, otherCall,
                 lastResult, dashboard>>

\* fetchBotMessages is called on its own, and its read succeeds
FetchBotMessagesCalled ==
    /\ pc = "idle"
    /\ LET bots == fetchBotMessages(now, botMessagesCache, cacheTimestamp, n8nStore, {})
       IN  /\ botMessagesCache' = bots.cache
           /\ cacheTimestamp' = bots.stamp
           /\ lastCall' = [name |-> "fetchBotMessages", failure |-> "none",
                           queried |-> ~CacheIsFresh(now, botMessagesCache, cacheTimestamp),
                           outcome |-> Returned(bots.result)]
    /\ UNCHANGED <<dashboard, sources, now, pc, down, locals, grouped, inFlight, otherCall, lastResult>>

\* the presentation layer calls one of the provider's other endpoints
FetchInstancesCalled(failure, instances) ==
    /\ lastCall' = [name |-> "fetchInstances", failure |-> failure,
                    outcome |-> fetchInstances(failure, instances)]
    /\ UNCHANGED requestVars

FetchChatsCalled(failure, chats) ==
    /\ lastCall' = [name |-> "fetchChats", failure |-> failure,
                    outcome |-> fetchChats(failure, chats)]
    /\ UNCHANGED requestVars

FetchMediaCalled(failure, data) ==
    /\ lastCall' = [name |-> "fetchMediaBase64", failure |-> failure,
                    outcome |-> fetchMediaBase64(failure, data)]
    /\ UNCHANGED requestVars

InstanceStatsCalled(failure, instances) ==
    /\ lastCall' = [name |-> "getInstanceStats", failure |-> failure,
                    outcome |-> getInstanceStats(failure, instances, DefaultInstanceName)]
    /\ UNCHANGED requestVars

\* the calls a request awaits
CallMessages == <<"fetchMessages">>

CallBotMessages == <<"fetchBotMessages">>

CallNumbers == <<"fetchAllConversationNumbers">>

LogCall(phone) == <<"fetchSupabaseMessages", phone>>

ThreeFetches == {CallMessages, CallBotMessages, CallNumbers}

\* a continuation that waits for the provider messages alone
AllSettled_MessagesOnly(remaining) == CallMessages \notin remaining

\* Promise.all of the three fetches has resolved
AllSettled(remaining) == remaining \cap ThreeFetches = {}

\* a loop that issues the calls of every contact left at once
BatchOf_Unbounded(missing, i) == Substring(missing, i, Len(missing))

\* missingPhones.slice(i, i + batchSize)
BatchOf(missing, i) == Substring(missing, i, i + batchSize)

\* where the function stands after a step: the calls it issues before its next await,
\* and what it returns once no await is left
Continue(map, names, missing, batchAt, phones, mergeAt, remaining) ==
    IF batchAt < Len(missing)
    THEN /\ pc' = "backfill"
         /\ inFlight' = remaining \cup {LogCall(phone) : phone \in Range(BatchOf(missing, batchAt))}
         /\ grouped' = <<>>
    ELSE IF mergeAt < Len(phones)
    THEN /\ pc' = "merge"
         /\ inFlight' = remaining \cup {LogCall(phones[mergeAt + 1])}
         /\ grouped' = <<>>
    ELSE /\ pc' = "done"
         /\ inFlight' = remaining
         /\ grouped' = BuildGrouped(map, names)

\* fetchGroupedConversations is called: the three fetches are issued; fetchBotMessages
\* returns at once when the cache is fresh
StartRequest(failed) ==
    /\ pc = "idle"
    /\ pc' = "fetching"
    /\ down' = failed
    /\ grouped' = <<>>
    /\ IF CacheIsFresh(now, botMessagesCache, cacheTimestamp)
       THEN /\ botMessages' = botMessagesCache
            /\ inFlight' = ThreeFetches \ {CallBotMessages}
       ELSE /\ botMessages' = botMessages
            /\ inFlight' = ThreeFetches
    /\ UNCHANGED <<dashboard, sources, now, cacheVars, messagesMap, contactNames, processedPhones,
                   missingPhones, batchIndex, mergeIndex, lastCall, otherCall, lastResult>>

\* some of the fetches resolve; when none is left, Promise.all resolves and the provider
\* messages are transformed and grouped
FetchesResolve(calls) ==
    /\ pc = "fetching"
    /\ calls # {}
    /\ calls \subseteq inFlight
    /\ LET bots == IF CallBotMessages \in calls
                   THEN RebuildBotMessages(now, botMessagesCache, cacheTimestamp, n8nStore, down)
                   ELSE [result |-> botMessages, cache |-> botMessagesCache,
                         stamp |-> cacheTimestamp]
           remaining == inFlight \ calls
           rawMessages == fetchMessages(evoStore, DefaultLimit, down)
           allConversationNumbers == fetchAllConversationNumbers(n8nStore, convStore, down)
           groups == GroupProviderMessages([map |-> EmptyMap, names |-> NoNames, phones |-> <<>>],
                                           rawMessages, bots.result, now)
           NotProcessed(phone) == phone \notin Range(groups.phones)
           missing == SelectSeq(allConversationNumbers, NotProcessed)
       IN  /\ botMessagesCache' = bots.cache
           /\ cacheTimestamp' = bots.stamp
           /\ botMessages' = bots.result
           /\ IF AllSettled(remaining)
              THEN /\ messagesMap' = groups.map
                   /\ contactNames' = groups.names
                   /\ processedPhones' = groups.phones
                   /\ missingPhones' = missing
                   /\ batchIndex' = 0
                   /\ mergeIndex' = 0
                   /\ Continue(groups.map, groups.names, missing, 0, groups.phones, 0, remaining)
              ELSE /\ inFlight' = remaining
                   /\ UNCHANGED <<messagesMap, contactNames, processedPhones, missingPhones,
                                  batchIndex, mergeIndex, pc, grouped, otherCall, lastResult>>
    /\ UNCHANGED <<dashboard, sources, now, down, lastCall, otherCall, lastResult>>

\* the fetches still in flight resolve together
FetchesComplete == FetchesResolve(inFlight)

\* one of the fetches resolves
FetchResolves(call) == FetchesResolve({call})

\* one call of the batch resolves while others of it are in flight
LogCallResolves(call) ==
    /\ pc = "backfill"
    /\ call \in inFlight
    /\ inFlight # {call}
    /\ inFlight' = inFlight \ {call}
    /\ UNCHANGED <<dashboard, sources, now, cacheVars, pc, down, locals, grouped, lastCall, otherCall, lastResult>>

\* the calls of the batch still in flight resolve: Promise.all of the batch resolves and
\* the histories are stored, for the contacts the provider did not return
BackfillBatch ==
    /\ pc = "backfill"
    /\ LET batch == BatchOf(missingPhones, batchIndex)
           map == SetBatchResults(messagesMap, batch, n8nStore, convStore, down)
       IN  /\ messagesMap' = map
           /\ batchIndex' = batchIndex + batchSize
           /\ Continue(map, contactNames, missingPhones, batchIndex + batchSize,
                       processedPhones, mergeIndex, {})
    /\ UNCHANGED <<dashboard, sources, now, cacheVars, down, botMessages, contactNames, processedPhones,
                   missingPhones, mergeIndex, lastCall, otherCall, lastResult>>

\* one iteration of the merge loop: the log history of a provider contact arrives
MergePhone ==
    /\ pc = "merge"
    /\ LET phone == processedPhones[mergeIndex + 1]
           supabaseMessages == fetchSupabaseMessages(phone, n8nStore, convStore, down)
           existingMessages == IF MapHas(messagesMap, phone) THEN MapGet(messagesMap, phone)
                               ELSE <<>>
           map == MapSet(messagesMap, phone,
                         SortByTimestamp(MergeSupabaseMessages(existingMessages, supabaseMessages)))
       IN  /\ messagesMap' = map
           /\ mergeIndex' = mergeIndex + 1
           /\ Continue(map, contactNames, missingPhones, batchIndex, processedPhones,
                       mergeIndex + 1, {})
    /\ UNCHANGED <<dashboard, sources, now, cacheVars, down, botMessages, contactNames, processedPhones,
                   missingPhones, batchIndex, lastCall, otherCall, lastResult>>

\* the caller has taken the result; the locals are gone
Return ==
    /\ pc = "done"
    /\ pc' = "idle"
    /\ down' = {}
    /\ botMessages' = EmptyBotMessages
    /\ messagesMap' = EmptyMap
    /\ contactNames' = NoNames
    /\ processedPhones' = <<>>
    /\ missingPhones' = <<>>
    /\ batchIndex' = 0
    /\ mergeIndex' = 0
    /\ grouped' = <<>>
    /\ inFlight' = {}
    /\ otherCall.state # "querying"
    /\ otherCall' = NoOtherCall
    /\ lastResult' = IF down = {} THEN [returned |-> TRUE, grouped |-> grouped] ELSE lastResult
    /\ UNCHANGED <<dashboard, sources, now, cacheVars, lastCall>>

\* another caller calls fetchBotMessages while the request's fetches are in flight; the
\* fresh cache answers at once, otherwise a query is issued
OtherCallStarts ==
    /\ pc = "fetching"
    /\ otherCall.state = "none"
    /\ otherCall' = IF CacheIsFresh(now, botMessagesCache, cacheTimestamp)
                    THEN [state |-> "returned", overlapped |-> FALSE, result |-> botMessagesCache]
                    ELSE [state |-> "querying", overlapped |-> CallBotMessages \in inFlight,
                          result |-> <<>>]
    /\ UNCHANGED <<dashboard, sources, now, cacheVars, pc, down, locals, grouped, lastCall, inFlight,
                   lastResult>>

\* the other caller's query resolves: the cache is replaced and returned
OtherCallResolves ==
    /\ otherCall.state = "querying"
    /\ LET bots == RebuildBotMessages(now, botMessagesCache, cacheTimestamp, n8nStore, down)
       IN  /\ botMessagesCache' = bots.cache
           /\ cacheTimestamp' = bots.stamp
           /\ otherCall' = [otherCall EXCEPT !.state = "returned", !.result = bots.result]
    /\ UNCHANGED <<dashboard, sources, now, pc, down, locals, grouped, lastCall, inFlight, lastResult>>

(***************************************************************************)
(* The conversation dashboard: MediaMessage and loadMedia                  *)
(***************************************************************************)
engine == <<sources, now, cacheVars, pc, down, locals, grouped, lastCall, inFlight, otherCall,
            lastResult>>

\* the test loadMedia starts with, over the state its render read
LoadStarts(msg, seen) ==
    ~(MapHas(seen.mediaCache, msg.message_key_id) \/ msg.message_key_id \in seen.loadingMedia)

\* loadMedia(msg) up to its await, called from the last render
loadMedia(i, caller) ==
    LET msg == SelectedMessages[i]
        key == msg.message_key_id
        starts == LoadStarts(msg, rendered)
    IN  /\ starts => mediaFetches[key] < MaxFetches
        /\ loadingMedia' = IF starts THEN loadingMedia \cup {key} ELSE loadingMedia
        /\ mediaFetches' = IF starts THEN [mediaFetches EXCEPT ![key] = @ + 1] ELSE mediaFetches
        /\ lastEvent' = [kind |-> caller, key |-> key, started |-> starts]

\* the effect of one MediaMessage runs after a render
EffectRuns(i) ==
    /\ i \in pendingEffects
    /\ pendingEffects' = pendingEffects \ {i}
    /\ LET key == SelectedMessages[i].message_key_id
           media == MapHas(rendered.mediaCache, key)
           isLoading == key \in rendered.loadingMedia
       IN  IF ~media /\ ~isLoading
           THEN loadMedia(i, "effect")
           ELSE /\ lastEvent' = [kind |-> "effect", key |-> key, started |-> FALSE]
                /\ UNCHANGED <<loadingMedia, mediaFetches>>
    /\ UNCHANGED <<engine, mediaCache, rendered, failedMedia>>

\* the user clicks the load control the last render shows for a message, its effect
\* having run
Click(i) ==
    /\ i \notin pendingEffects
    /\ LET key == SelectedMessages[i].message_key_id
       IN  /\ key \notin rendered.loadingMedia
           /\ ~MapHas(rendered.mediaCache, key)
           /\ failedMedia' = failedMedia \ {key}
    /\ loadMedia(i, "click")
    /\ UNCHANGED <<engine, mediaCache, rendered, pendingEffects>>

\* the dashboard renders again: it reads the state, every MediaMessage receives a new
\* onLoadMedia and its effect is due; the effects of the render before have run
Render ==
    /\ pendingEffects = {}
    /\ rendered' = [mediaCache |-> mediaCache, loadingMedia |-> loadingMedia]
    /\ pendingEffects' = MediaElements
    /\ lastEvent' = [kind |-> "render"]
    /\ UNCHANGED <<engine, mediaCache, loadingMedia, mediaFetches, failedMedia>>

\* a call of fetchMediaBase64 awaited by loadMedia ends: loadMedia from its await on
MediaFetchResolves(key, failure, data) ==
    /\ mediaFetches[key] > 0
    /\ LET outcome == fetchMediaBase64(failure, data)
           media == IF outcome.threw THEN Null ELSE outcome.value
       IN  /\ mediaCache' = IF media # Null THEN MapSet(mediaCache, key, media) ELSE mediaCache
           /\ failedMedia' = IF media # Null THEN failedMedia \ {key} ELSE failedMedia \cup {key}
           /\ lastEvent' = [kind |-> "resolve", key |-> key, loaded |-> media # Null]
    /\ loadingMedia' = loadingMedia \ {key}
    /\ mediaFetches' = [mediaFetches EXCEPT ![key] = @ - 1]
    /\ UNCHANGED <<engine, rendered, pendingEffects>>

\* one request over the given inputs
NextOver(evoInputs, n8nInputs, convInputs, failureModes) ==
    \/ \E msg \in evoInputs : ProviderStores(msg)
    \/ \E row \in n8nInputs : N8nStores(row)
    \/ \E row \in convInputs : ConvStores(row)
    \/ \E failed \in failureModes : StartRequest(failed)
    \/ FetchesComplete
    \/ BackfillBatch
    \/ MergePhone

Next == NextOver(EvoInputs, N8nInputs, ConvInputs, NoFailure)

Spec == Init /\ [][Next]_vars

\* requests one after another, each with a source that may fail
NextFailures == NextOver(EvoFailureInputs, N8nInputs, ConvInputs, FailureModes) \/ Return

SpecFailures == Init /\ [][NextFailures]_vars

\* the same over the single-failure inputs
NextDegraded ==
    NextOver(EvoDegradedInputs, N8nDegradedInputs, ConvDegradedInputs, FailureModes) \/ Return

SpecDegraded == Init /\ [][NextDegraded]_vars

\* requests one after another with the clock running between them, every fetch
\* resolving on its own, beside a second caller of fetchBotMessages
NextClock ==
    \/ \E msg \in EvoClockInputs : ProviderStores(msg)
    \/ \E row \in N8nClockInputs : N8nStoresUpTo(row, MaxRows)
    \/ \E failed \in CacheFailures : StartRequest(failed)
    \/ \E call \in ThreeFetches : FetchResolves(call)
    \/ BackfillBatch
    \/ MergePhone
    \/ Return
    \/ Tick
    \/ OtherCallStarts
    \/ OtherCallResolves

SpecClock == Init /\ [][NextClock]_vars

\* one request over the identifier forms
NextIdentity == NextOver(EvoIdentityInputs, N8nIdentityInputs, ConvIdentityInputs, NoFailure)

SpecIdentity == Init /\ [][NextIdentity]_vars

\* one request over the attribution texts
NextAttribution ==
    NextOver(EvoAttributionInputs, N8nAttributionInputs, ConvAttributionInputs, NoFailure)

SpecAttribution == Init /\ [][NextAttribution]_vars

\* one request over the payload shapes
NextPayloads == NextOver(EvoPayloadInputs, N8nPayloadInputs, ConvPayloadInputs, NoFailure)

SpecPayloads == Init /\ [][NextPayloads]_vars

\* one request over the content cases
NextContent == NextOver(EvoContentInputs, N8nContentInputs, ConvContentInputs, NoFailure)

SpecContent == Init /\ [][NextContent]_vars

\* one request over the merge cases
NextMerge ==
    \/ \E msg \in EvoMergeInputs : ProviderStores(msg)
    \/ \E row \in N8nMergeInputs : N8nStoresUpTo(row, MaxRows)
    \/ \E row \in ConvMergeInputs : ConvStoresUpTo(row, MaxRows)
    \/ \E failed \in NoFailure : StartRequest(failed)
    \/ FetchesComplete
    \/ BackfillBatch
    \/ MergePhone

SpecMerge == Init /\ [][NextMerge]_vars

\* the dashboard showing one conversation
NextDashboard ==
    \/ \E i \in MediaElements : EffectRuns(i)
    \/ \E i \in MediaElements : Click(i)
    \/ Render
    \/ \E key \in MessageKeys, failure \in HttpFailures, data \in MediaBodies :
          MediaFetchResolves(key, failure, data)

SpecDashboard == Init /\ [][NextDashboard]_vars

\* the same where every call of fetchMediaBase64 ends
FairDashboard ==
    /\ SpecDashboard
    /\ \A key \in MessageKeys :
          WF_vars(\E failure \in HttpFailures, data \in MediaBodies :
                     MediaFetchResolves(key, failure, data))

\* calls of fetchBotMessages over tables that hold more rows than its query reads
NextWindow ==
    \/ \E row \in N8nWindowInputs : N8nStoresUpTo(row, MaxRows)
    \/ \E row \in N8nLaterInputs, count \in LaterCounts : N8nStoresMany(row, count)
    \/ FetchBotMessagesCalled

SpecWindow == Init /\ [][NextWindow]_vars

\* requests over many contacts, every call resolving on its own
NextBatches ==
    \/ \E msg \in EvoBatchInputs : ProviderStores(msg)
    \/ \E count \in ContactCounts : N8nStoresContacts(count)
    \/ \E failed \in NoFailure : StartRequest(failed)
    \/ \E call \in ThreeFetches : FetchResolves(call)
    \/ \E call \in inFlight : LogCallResolves(call)
    \/ BackfillBatch
    \/ MergePhone
    \/ Return

SpecBatches == Init /\ [][NextBatches]_vars

\* one request, with any sources failing, beside calls of the other endpoints
NextEndpoints ==
    \/ NextOver(EvoEndpointInputs, N8nPayloadInputs, ConvPayloadInputs, FailureCombinations)
    \/ \E failure \in HttpFailures, instances \in InstanceLists :
          FetchInstancesCalled(failure, instances)
    \/ \E failure \in HttpFailures, chats \in ChatLists : FetchChatsCalled(failure, chats)
    \/ \E failure \in HttpFailures, data \in MediaBodies : FetchMediaCalled(failure, data)
    \/ \E failure \in HttpFailures, instances \in InstanceLists :
          InstanceStatsCalled(failure, instances)

SpecEndpoints == Init /\ [][NextEndpoints]_vars

(***************************************************************************)
(* What the claims speak of                                                *)
(***************************************************************************)
\* the conversations a finished request returned, by position
Conversations == DOMAIN grouped

\* the ids of the messages returned for a contact key
OutputIds(phone) ==
    UNION {{grouped[c].messages[j].id : j \in DOMAIN grouped[c].messages} :
              c \in {d \in Conversations : grouped[d].whatsapp_number = phone}}

\* every message returned, with the key of its conversation
OutputMessages ==
    UNION {{[key |-> grouped[c].whatsapp_number, msg |-> grouped[c].messages[j]] :
                j \in DOMAIN grouped[c].messages} : c \in Conversations}

FromProvider(m) == m.id[1] = "evo"

FromLogs(m) == m.id[1] \in {"n8n", "conv"}

\* provider message i is a displayable message of a one-to-one contact
InProviderWindow(i) ==
    /\ ~Includes(evoStore[i].key.remoteJid, SuffixGroup)
    /\ ~(Includes(evoStore[i].key.remoteJid, SuffixLid) /\ evoStore[i].key.remoteJidAlt = <<>>)
    /\ ~(extractMessageContent(evoStore[i].message).content = <<>>
            /\ extractMessageContent(evoStore[i].message).mediaType = "other")

ProviderCopy(i) == transformMessage(evoStore[i], now)

\* the displayable messages the two log tables hold for a key
LogCopies(phone) ==
    {ChatHistoryMessage(n8nStore[r], phone) :
        r \in {q \in DOMAIN n8nStore :
                  /\ n8nStore[q].session_id = phone
                  /\ n8nStore[q].message.type # "tool"
                  /\ ~IsSkippedContent(ExtractUserMessage(n8nStore[q]))}}
    \cup
    {ConversationLogMessage(convStore[r], phone) :
        r \in {q \in DOMAIN convStore :
                  convStore[q].whatsapp_number = phone /\ convStore[q].message_content # <<>>}}

ProviderCopies(phone) ==
    {ProviderCopy(i) :
        i \in {q \in DOMAIN evoStore :
                  InProviderWindow(q) /\ ProviderCopy(q).whatsapp_number = phone}}

Fingerprint(m) == normalizeMessageContent(m.message_content)

SameFingerprint(a, b) == Fingerprint(a) = Fingerprint(b)

Apart(a, b) == Abs(a.timestamp - b.timestamp)

\* no third record of the contact with the text of s lies within a minute of s
NoOtherCopyNear(s, phone) ==
    \A m \in (ProviderCopies(phone) \cup LogCopies(phone)) \ {s} :
        ~(SameFingerprint(m, s) /\ Apart(m, s) < 60 * 1000)

(***************************************************************************)
(* C1: in every conversation a finished request returns, the messages are  *)
(* in non-decreasing order of timestamp, whichever sources they came from. *)
(***************************************************************************)
C1_MessagesSorted ==
    pc = "done" =>
        \A c \in Conversations :
            \A j \in 1..(Len(grouped[c].messages) - 1) :
                grouped[c].messages[j].timestamp <= grouped[c].messages[j + 1].timestamp

\* a conversation of provider and log messages whose provider messages arrived newest first
C1_Witness ==
    /\ pc = "done"
    /\ Len(evoStore) >= 2
    /\ evoStore[1].messageTimestamp > evoStore[2].messageTimestamp
    /\ \E c \in Conversations :
          /\ Len(grouped[c].messages) >= 3
          /\ \E j \in DOMAIN grouped[c].messages : FromLogs(grouped[c].messages[j])
          /\ {<<"evo", 1>>, <<"evo", 2>>} \subseteq OutputIds(grouped[c].whatsapp_number)

(***************************************************************************)
(* C2: a provider message and a log message of the same contact with the   *)
(* same normalized text: 30 seconds apart, the provider copy is returned   *)
(* and the log copy is not; 5 minutes apart, both are returned (the pair   *)
(* is judged on its own: no third copy of the text lies within a minute    *)
(* of the log copy).                                                       *)
(***************************************************************************)
C2_DedupWindow ==
    (pc = "done" /\ down = {}) =>
        \A i \in DOMAIN evoStore :
            InProviderWindow(i) =>
                LET p == ProviderCopy(i)
                    phone == p.whatsapp_number
                IN  \A s \in LogCopies(phone) :
                        SameFingerprint(p, s) =>
                            /\ Apart(p, s) = 30 * 1000 =>
                                  p.id \in OutputIds(phone) /\ s.id \notin OutputIds(phone)
                            /\ (Apart(p, s) = 5 * 60 * 1000 /\ NoOtherCopyNear(s, phone)) =>
                                  p.id \in OutputIds(phone) /\ s.id \in OutputIds(phone)

\* one provider message with a log copy 30 seconds later, dropped, and another log
\* copy 5 minutes later, kept
C2_Witness ==
    /\ pc = "done"
    /\ down = {}
    /\ \E i \in DOMAIN evoStore :
          /\ InProviderWindow(i)
          /\ \E s, t \in LogCopies(ProviderCopy(i).whatsapp_number) :
                /\ SameFingerprint(ProviderCopy(i), s)
                /\ SameFingerprint(ProviderCopy(i), t)
                /\ ProviderCopy(i).message_content # s.message_content
                /\ Apart(ProviderCopy(i), s) = 30 * 1000
                /\ Apart(ProviderCopy(i), t) = 5 * 60 * 1000
                /\ s.id \notin OutputIds(ProviderCopy(i).whatsapp_number)
                /\ {ProviderCopy(i).id, t.id} \subseteq OutputIds(ProviderCopy(i).whatsapp_number)

(***************************************************************************)
(* C3: a provider message and a log message of one contact whose           *)
(* fingerprints are equal or one a prefix of the other, at most the        *)
(* tolerance window apart, are duplicates: only one of the two is          *)
(* returned; so for a provider fingerprint that is a strict prefix of the  *)
(* log fingerprint, 30 seconds apart.                                      *)
(***************************************************************************)
C3_PrefixDuplicates ==
    (pc = "done" /\ down = {}) =>
        \A i \in DOMAIN evoStore :
            InProviderWindow(i) =>
                \A s \in LogCopies(ProviderCopy(i).whatsapp_number) :
                    (/\ \/ StartsWith(Fingerprint(s), Fingerprint(ProviderCopy(i)))
                        \/ StartsWith(Fingerprint(ProviderCopy(i)), Fingerprint(s))
                     /\ Apart(ProviderCopy(i), s) = 30 * 1000)
                    => ~({ProviderCopy(i).id, s.id}
                            \subseteq OutputIds(ProviderCopy(i).whatsapp_number))

(***************************************************************************)
(* C4: the resolver gives "971501234567" for "971501234567@s.whatsapp.net" *)
(* and for "8839201@lid" with that alternate, and gives no phone number    *)
(* (rejects) for "8839201@lid" without an alternate and for "1234@g.us"    *)
(* with any alternate.                                                     *)
(***************************************************************************)
C4_ResolverContract ==
    \A i \in DOMAIN evoStore :
        LET jid == evoStore[i].key.remoteJid
            alt == evoStore[i].key.remoteJidAlt
        IN  /\ (jid = PhoneA \o SuffixWhatsapp /\ alt = <<>>) =>
                    extractPhoneNumber(jid, alt) = PhoneA
            /\ (jid = LinkedId \o SuffixLid /\ alt = PhoneA \o SuffixWhatsapp) =>
                    extractPhoneNumber(jid, alt) = PhoneA
            /\ (jid = LinkedId \o SuffixLid /\ alt = <<>>) => extractPhoneNumber(jid, alt) = <<>>
            /\ (jid = GroupId \o SuffixGroup) => extractPhoneNumber(jid, alt) = <<>>

(***************************************************************************)
(* C5: a provider message with a group identifier, as its primary or as    *)
(* the alternate it is resolved by, or with a linked primary and no        *)
(* alternate, is in no conversation a request returns.                     *)
(***************************************************************************)
C5_GroupsAndUnresolvedSkipped ==
    pc = "done" =>
        \A i \in DOMAIN evoStore :
            (\/ Includes(evoStore[i].key.remoteJid, SuffixGroup)
             \/ Includes(evoStore[i].key.remoteJidAlt, SuffixGroup)
             \/ Includes(evoStore[i].key.remoteJid, SuffixLid) /\ evoStore[i].key.remoteJidAlt = <<>>)
            => \A o \in OutputMessages : o.msg.id # evoStore[i].id

(***************************************************************************)
(* C6: the key of every returned conversation and of every returned        *)
(* message holds no provider suffix (@s.whatsapp.net, @lid, @g.us).        *)
(***************************************************************************)
HasSuffixMarker(key) ==
    Includes(key, SuffixWhatsapp) \/ Includes(key, SuffixLid) \/ Includes(key, SuffixGroup)

C6_CanonicalKeys ==
    pc = "done" =>
        /\ \A c \in Conversations : ~HasSuffixMarker(grouped[c].whatsapp_number)
        /\ \A o \in OutputMessages : ~HasSuffixMarker(o.msg.whatsapp_number)

(***************************************************************************)
(* C7: for a contact with a fingerprint set, a returned outgoing provider  *)
(* message is marked is_from_bot exactly when its fingerprint is a prefix  *)
(* of, or has as a prefix, a fingerprint of that set; so the first 100     *)
(* characters of a 140-character assistant entry of the set are marked.    *)
(***************************************************************************)
PrefixRelated(a, b) == StartsWith(a, b) \/ StartsWith(b, a)

C7_FingerprintAttribution ==
    pc = "done" =>
        \A o \in OutputMessages :
            (FromProvider(o.msg) /\ o.msg.message_type = "outgoing" /\ o.key \in DOMAIN botMessages)
            => /\ o.msg.is_from_bot <=>
                    \E f \in botMessages[o.key] : PrefixRelated(f, Fingerprint(o.msg))
               /\ (\E r \in DOMAIN n8nStore :
                      /\ n8nStore[r].session_id = o.key
                      /\ n8nStore[r].message.type = "ai"
                      /\ Len(n8nStore[r].message.content) = 140
                      /\ normalizeMessageContent(n8nStore[r].message.content) \in botMessages[o.key]
                      /\ o.msg.message_content = SubSeq(n8nStore[r].message.content, 1, 100))
                  => o.msg.is_from_bot

\* the truncated copy of a long assistant reply is returned, marked as the assistant's,
\* beside a staff message of the same contact that is not
C7_Witness ==
    /\ pc = "done"
    /\ \E o \in OutputMessages :
          /\ FromProvider(o.msg) /\ o.msg.message_type = "outgoing"
          /\ o.key \in DOMAIN botMessages
          /\ o.msg.message_content = TextLong100
          /\ \E r \in DOMAIN n8nStore :
                n8nStore[r].session_id = o.key /\ n8nStore[r].message.content = TextLong140
          /\ o.msg.is_from_bot
    /\ \E o \in OutputMessages :
          /\ FromProvider(o.msg) /\ o.msg.message_type = "outgoing"
          /\ o.key \in DOMAIN botMessages
          /\ ~o.msg.is_from_bot

(***************************************************************************)
(* C8: when the generation log cannot be read, or holds no assistant entry *)
(* of the contact, a returned outgoing provider message is marked          *)
(* is_from_bot exactly when its text contains one of the fixed phrases.    *)
(***************************************************************************)
C8_PatternFallback ==
    pc = "done" =>
        \A o \in OutputMessages :
            (/\ FromProvider(o.msg) /\ o.msg.message_type = "outgoing"
             /\ \/ "n8n" \in down
                \/ \A r \in DOMAIN n8nStore :
                      ~(n8nStore[r].session_id = o.key /\ n8nStore[r].message.type = "ai"))
            => (o.msg.is_from_bot <=>
                    \E pattern \in botPatterns : Includes(o.msg.message_content, pattern))

(***************************************************************************)
(* C9: every returned incoming message has is_from_bot = false.            *)
(***************************************************************************)
C9_IncomingNeverBot ==
    pc = "done" =>
        \A o \in OutputMessages : o.msg.message_type = "incoming" => ~o.msg.is_from_bot

(***************************************************************************)
(* C10: when the log tables are read, each of their keys that has a        *)
(* displayable log message and no provider message in the window has a     *)
(* conversation in the result, made of its log history alone.              *)
(***************************************************************************)
LogKeys ==
    ({n8nStore[r].session_id : r \in DOMAIN n8nStore}
        \cup {convStore[r].whatsapp_number : r \in DOMAIN convStore}) \ {<<>>}

C10_LogOnlyContactsSurface ==
    (pc = "done" /\ down \cap {"n8n", "conv"} = {}) =>
        \A phone \in LogKeys :
            (LogCopies(phone) # {} /\ ("evo" \in down \/ ProviderCopies(phone) = {}))
            => \E c \in Conversations :
                  /\ grouped[c].whatsapp_number = phone
                  /\ grouped[c].messages = fetchSupabaseMessages(phone, n8nStore, convStore, {})
                  /\ \A j \in DOMAIN grouped[c].messages : FromLogs(grouped[c].messages[j])

\* a contact known to the logs only is returned beside a contact of the provider
C10_Witness ==
    /\ pc = "done"
    /\ down = {}
    /\ \E o \in OutputMessages : FromProvider(o.msg)
    /\ \E c \in Conversations :
          /\ grouped[c].whatsapp_number \in LogKeys
          /\ ProviderCopies(grouped[c].whatsapp_number) = {}
          /\ grouped[c].messages # <<>>
          /\ \A j \in DOMAIN grouped[c].messages : FromLogs(grouped[c].messages[j])

(***************************************************************************)
(* C18: in every returned conversation, unread_count is the number of      *)
(* messages of its final merged list that are incoming and whose status is *)
(* not 'read'.                                                             *)
(***************************************************************************)
C18_UnreadCount ==
    pc = "done" =>
        \A c \in Conversations :
            grouped[c].unread_count =
                Cardinality({j \in DOMAIN grouped[c].messages :
                                /\ grouped[c].messages[j].message_type = "incoming"
                                /\ grouped[c].messages[j].status # "read"})

\* one unread incoming provider message beside an outgoing one and an incoming log
\* message that was read: the count is 1
C18_Witness ==
    /\ pc = "done"
    /\ \E c \in Conversations :
          /\ grouped[c].unread_count = 1
          /\ \E j, k, l \in DOMAIN grouped[c].messages :
                /\ FromProvider(grouped[c].messages[j])
                /\ grouped[c].messages[j].message_type = "incoming"
                /\ grouped[c].messages[j].status # "read"
                /\ grouped[c].messages[k].message_type = "outgoing"
                /\ FromLogs(grouped[c].messages[l])
                /\ grouped[c].messages[l].message_type = "incoming"
                /\ grouped[c].messages[l].status = "read"

(***************************************************************************)
(* C19: the returned list is in non-increasing order of                    *)
(* last_message.timestamp, and last_message is the final element of the    *)
(* conversation's sorted message list.                                     *)
(***************************************************************************)
C19_NewestConversationFirst ==
    pc = "done" =>
        /\ \A c \in Conversations :
              grouped[c].last_message = grouped[c].messages[Len(grouped[c].messages)]
        /\ \A c \in 1..(Len(grouped) - 1) :
              grouped[c].last_message.timestamp >= grouped[c + 1].last_message.timestamp

\* the conversation the request collected last is returned first, being the more recent
C19_Witness ==
    /\ pc = "done"
    /\ Len(grouped) = 2
    /\ Len(messagesMap) = 2
    /\ grouped[1].whatsapp_number = messagesMap[2][1]
    /\ grouped[1].last_message.timestamp > grouped[2].last_message.timestamp

(***************************************************************************)
(* C20: the normalizer resolves a payload by the first shape it holds in   *)
(* the order plain text, extended text, image, audio, document, video,     *)
(* sticker, location, contact card, reaction: text shapes give their text  *)
(* with kind text; an image or a video gives its caption, or the empty     *)
(* text, with its kind; a document gives its file name, or the default     *)
(* label; a null payload gives ("", other); a payload of no known shape    *)
(* gives the generic placeholder with kind other. The returned message     *)
(* carries that text and kind.                                             *)
(***************************************************************************)
ShapeOrder ==
    <<"conversation", "extendedTextMessage", "imageMessage", "audioMessage", "documentMessage",
      "videoMessage", "stickerMessage", "locationMessage", "contactMessage", "reactionMessage">>

FirstShape(message) ==
    IF message = NullMessage THEN "null"
    ELSE IF \A i \in DOMAIN ShapeOrder : ~Has(message, ShapeOrder[i]) THEN "unknown"
    ELSE ShapeOrder[CHOOSE i \in DOMAIN ShapeOrder :
                        /\ Has(message, ShapeOrder[i])
                        /\ \A j \in 1..(i - 1) : ~Has(message, ShapeOrder[j])]

KindOfShape(shape) ==
    CASE shape \in {"conversation", "extendedTextMessage"} -> "text"
      [] shape = "imageMessage" -> "image"
      [] shape = "audioMessage" -> "audio"
      [] shape = "documentMessage" -> "document"
      [] shape = "videoMessage" -> "video"
      [] shape = "stickerMessage" -> "sticker"
      [] OTHER -> "other"

ResolvedAsClaimed(message, content, kind) ==
    LET shape == FirstShape(message)
    IN  /\ kind = KindOfShape(shape)
        /\ shape = "null" => content = <<>>
        /\ shape = "conversation" => content = message.conversation
        /\ shape = "extendedTextMessage" => content = message.extendedTextMessage.text
        /\ shape \in {"imageMessage", "videoMessage"} => content = Field(message[shape], "caption")
        /\ shape \in {"audioMessage", "stickerMessage"} => content = <<>>
        /\ shape = "documentMessage" =>
              content = IF Has(message.documentMessage, "fileName")
                        THEN message.documentMessage.fileName ELSE DefaultDocumentLabel
        /\ shape = "unknown" => content = AttachmentPlaceholder
        /\ message = [imageMessage |-> [caption |-> TextHello]] =>
              content = TextHello /\ kind = "image"

C20_ResolutionOrder ==
    /\ \A i \in DOMAIN evoStore :
          ResolvedAsClaimed(evoStore[i].message,
                            extractMessageContent(evoStore[i].message).content,
                            extractMessageContent(evoStore[i].message).mediaType)
    /\ pc = "done" =>
          \A o \in OutputMessages :
              FromProvider(o.msg) =>
                  ResolvedAsClaimed(evoStore[o.msg.id[2]].message, o.msg.message_content,
                                    o.msg.message_media_type)

\* a captioned image and a payload of no known shape are returned as ("hello", image)
\* and the generic placeholder
C20_Witness ==
    /\ pc = "done"
    /\ \E o, u \in OutputMessages :
          /\ FromProvider(o.msg) /\ FromProvider(u.msg)
          /\ evoStore[o.msg.id[2]].message = [imageMessage |-> [caption |-> TextHello]]
          /\ o.msg.message_content = TextHello /\ o.msg.message_media_type = "image"
          /\ FirstShape(evoStore[u.msg.id[2]].message) = "unknown"
          /\ u.msg.message_content = AttachmentPlaceholder /\ u.msg.message_media_type = "other"

(***************************************************************************)
(* A request that runs step by step returns what the function returns.     *)
(***************************************************************************)
StepsAgreeWithFunction ==
    pc = "done" =>
        grouped = fetchGroupedConversations(evoStore, n8nStore, convStore, botMessages, now, down)

(***************************************************************************)
(* C11: when exactly one of the three sources fails during a request, the  *)
(* request still returns; no message of the failed source is in the        *)
(* result; and the result is what the request returns when that source is  *)
(* empty and nothing fails: every conversation and message of the other    *)
(* sources is there.                                                       *)
(***************************************************************************)
Available(source, store) == IF source \in down THEN <<>> ELSE store

SourceOf(m) == m.id[1]

NullOnFailure == {"fetchMediaBase64", "getInstanceStats"}

LogCallsInFlight == inFlight \ ThreeFetches

\* the request has changed none of its locals
NothingProcessed ==
    /\ messagesMap = EmptyMap
    /\ contactNames = NoNames
    /\ processedPhones = <<>>
    /\ missingPhones = <<>>
    /\ grouped = <<>>

\* C16: a request issues its three fetches together, a fetch of the fingerprints being
\* in flight unless the fresh cache answered it at once; while one of the three is in
\* flight nothing is transformed, grouped or merged, and no later phase runs
C16_FetchesBeforeProcessing ==
    [][/\ (pc = "idle" /\ pc' = "fetching") =>
              /\ {CallMessages, CallNumbers} \subseteq inFlight'
              /\ CallBotMessages \in inFlight' \/ botMessages' = botMessagesCache
       /\ pc' = "fetching" => NothingProcessed'
       /\ inFlight' \cap ThreeFetches # {} => pc' = "fetching"]_vars

\* the three fetches are in flight at once, over a provider message and a log contact
C16_Witness ==
    /\ inFlight = ThreeFetches
    /\ evoStore # <<>>
    /\ n8nStore # <<>>

\* C17: never more than batchSize log calls are in flight; during the backfill the calls
\* in flight belong to the batch at batchIndex, so every call of the batches before it has
\* completed; during the merge one call is in flight, that of the contact being merged
C17_BatchesBounded ==
    /\ Cardinality(LogCallsInFlight) <= batchSize
    /\ pc = "backfill" =>
          LogCallsInFlight \subseteq
              {LogCall(missingPhones[i]) :
                  i \in (batchIndex + 1)..Min2(batchIndex + batchSize, Len(missingPhones))}
    /\ pc = "merge" => LogCallsInFlight = {LogCall(processedPhones[mergeIndex + 1])}
    /\ pc \notin {"backfill", "merge"} => LogCallsInFlight = {}

\* the second batch is in flight, after a first batch of batchSize calls
C17_Witness ==
    /\ pc = "backfill"
    /\ batchIndex = batchSize
    /\ Len(missingPhones) > batchSize
    /\ LogCallsInFlight # {}
    /\ MapHas(messagesMap, missingPhones[1])

\* the second provider contact is being merged, one call in flight
C17_MergeWitness ==
    /\ pc = "merge"
    /\ mergeIndex = 1
    /\ Cardinality(inFlight) = 1


\* what a rebuild over the rows of n8n_chat_histories as they stand produces
SingleRebuild == BuildBotMessages(Substring(OrderDescending(n8nStore), 0, BotQueryLimit))

\* the request's call of fetchBotMessages returns in this step, after a query
QueryReturns == CallBotMessages \in inFlight /\ CallBotMessages \notin inFlight'

\* C14: a request started within CACHE_DURATION of the build of a non-empty cache gets
\* the cached map, without a query and with the cache left as it is; a query that returns
\* more than CACHE_DURATION after the cache was built returns a rebuild over the rows as
\* they stand, never the expired map
C14_CacheExpires ==
    [][/\ (/\ pc = "idle" /\ pc' = "fetching"
           /\ now - cacheTimestamp < CACHE_DURATION
           /\ DOMAIN botMessagesCache # {})
          => /\ botMessages' = botMessagesCache
             /\ CallBotMessages \notin inFlight'
             /\ UNCHANGED cacheVars
       /\ (/\ QueryReturns
           /\ now - cacheTimestamp > CACHE_DURATION
           /\ DOMAIN botMessagesCache # {})
          => botMessages' = SingleRebuild]_vars


\* C13: a request that reads every source returns what the request before it returned,
\* when no source has changed between the two, whatever the clock shows and whoever
\* filled the cache
C13_SameSnapshotsSameOutput ==
    (pc = "done" /\ down = {} /\ lastResult.returned) => grouped = lastResult.grouped


\* the cache is the map built from all the rows the table held at some moment
CacheIsComplete ==
    \E k \in 0..Len(n8nStore) :
        botMessagesCache =
            BuildBotMessages(Substring(OrderDescending(SubSeq(n8nStore, 1, k)), 0, BotQueryLimit))

\* C15: when another caller's fetchBotMessages started while the request's own query was
\* in flight, and both have returned after reading the table, both returned the map a
\* single rebuild over the rows produces and the cache holds that map; at every moment
\* the cache is a completely built map
C15_OverlappingRebuilds ==
    /\ CacheIsComplete
    /\ (/\ otherCall.state = "returned"
        /\ otherCall.overlapped
        /\ pc # "idle"
        /\ CallBotMessages \notin inFlight
        /\ "n8n" \notin down)
       => /\ botMessages = otherCall.result
          /\ botMessages = SingleRebuild
          /\ botMessagesCache = SingleRebuild

\* both callers found the cache stale, both have queried and returned, over two rows of
\* two contacts
C15_Witness ==
    /\ otherCall.state = "returned"
    /\ otherCall.overlapped
    /\ pc # "idle"
    /\ CallBotMessages \notin inFlight
    /\ down = {}
    /\ Cardinality(DOMAIN botMessagesCache) = 2

\* both queries are in flight at once, the cache being older than CACHE_DURATION
C15_BothInFlight ==
    /\ otherCall.state = "querying"
    /\ CallBotMessages \in inFlight
    /\ DOMAIN botMessagesCache # {}
    /\ now - cacheTimestamp > CACHE_DURATION


\* the contact keys the sources hold a record of
SourceKeys ==
    {extractPhoneNumber(evoStore[i].key.remoteJid, evoStore[i].key.remoteJidAlt) :
        i \in DOMAIN evoStore}
    \cup {n8nStore[r].session_id : r \in DOMAIN n8nStore}
    \cup {convStore[r].whatsapp_number : r \in DOMAIN convStore}

\* C21: no returned message has empty content and media kind other; a provider record
\* without a payload is in no conversation
C21_NoContentFreeMessage ==
    pc = "done" =>
        /\ \A o \in OutputMessages :
              ~(o.msg.message_content = <<>> /\ o.msg.message_media_type = "other")
        /\ \A i \in DOMAIN evoStore :
              evoStore[i].message = NullMessage =>
                  \A phone \in SourceKeys : evoStore[i].id \notin OutputIds(phone)

\* a record without payload was read beside a voice note of the same contact: the voice
\* note, without text, is returned
C21_Witness ==
    /\ pc = "done"
    /\ \E i, j \in DOMAIN evoStore :
          /\ evoStore[i].message = NullMessage
          /\ evoStore[j].message = AudioPayload
          /\ evoStore[i].key.remoteJid = evoStore[j].key.remoteJid
          /\ evoStore[j].id \in OutputIds(PhoneA)
    /\ \E o \in OutputMessages : o.msg.message_content = <<>>

\* C26: every returned conversation has messages, its last_message is one of them and
\* none of them is later; a returned contact has a displayable message in some source
C26_ConversationsHaveMessages ==
    (pc = "done" /\ down = {}) =>
        \A c \in Conversations :
            /\ Len(grouped[c].messages) > 0
            /\ \E j \in DOMAIN grouped[c].messages : grouped[c].messages[j] = grouped[c].last_message
            /\ \A j \in DOMAIN grouped[c].messages :
                  grouped[c].messages[j].timestamp <= grouped[c].last_message.timestamp
            /\ ProviderCopies(grouped[c].whatsapp_number) \cup LogCopies(grouped[c].whatsapp_number)
                  # {}

\* a contact known to the provider and to a log by records without content has no
\* conversation, beside a conversation of several messages
C26_Witness ==
    /\ pc = "done"
    /\ down = {}
    /\ \E i \in DOMAIN evoStore : evoStore[i].key.remoteJid = PhoneB \o SuffixWhatsapp
    /\ \/ \E r \in DOMAIN n8nStore : n8nStore[r].session_id = PhoneB
       \/ \E r \in DOMAIN convStore : convStore[r].whatsapp_number = PhoneB
    /\ \A c \in Conversations : grouped[c].whatsapp_number # PhoneB
    /\ \E c \in Conversations :
          /\ Len(grouped[c].messages) >= 2
          /\ grouped[c].messages[1].timestamp < grouped[c].last_message.timestamp

\* C27: a returned outgoing provider message without text is marked is_from_bot only when
\* the fingerprint set of its contact holds the fingerprint of its text, the empty one
C27_EmptyTextNotAutomated ==
    pc = "done" =>
        \A o \in OutputMessages :
            (/\ FromProvider(o.msg)
             /\ o.msg.message_type = "outgoing"
             /\ o.msg.message_content = <<>>
             /\ o.msg.is_from_bot)
            => /\ o.key \in DOMAIN botMessages
               /\ Fingerprint(o.msg) \in botMessages[o.key]


\* the other caller's query returns in this step
OtherQueryReturns == otherCall.state = "querying" /\ otherCall'.state = "returned"

\* C29: a query of fetchBotMessages that fails leaves the cached map and cacheTimestamp
\* as they were and returns the cached map; the map and the timestamp change only
\* together, in a step where a query that succeeded returns, to the rebuilt map and to
\* the clock
C29_FailedRebuildKeepsCache ==
    [][/\ (QueryReturns /\ "n8n" \in down)
          => UNCHANGED cacheVars /\ botMessages' = botMessagesCache
       /\ (OtherQueryReturns /\ "n8n" \in down)
          => UNCHANGED cacheVars /\ otherCall'.result = botMessagesCache
       /\ (botMessagesCache' # botMessagesCache \/ cacheTimestamp' # cacheTimestamp)
          => /\ QueryReturns \/ OtherQueryReturns
             /\ "n8n" \notin down
             /\ botMessagesCache' = SingleRebuild
             /\ cacheTimestamp' = now]_vars

\* a query has failed while the cache held an expired map that a rebuild would replace:
\* the request works with the expired map, which is still the cache
C29_Witness ==
    /\ pc \in {"backfill", "merge", "done"}
    /\ "n8n" \in down
    /\ DOMAIN botMessagesCache # {}
    /\ now - cacheTimestamp > CACHE_DURATION
    /\ botMessages = botMessagesCache
    /\ botMessagesCache # SingleRebuild


\* the assistant rows of one contact, the other rows of the table left out
AiRowsOf(sessionId) ==
    LET Own(row) == row.session_id = sessionId /\ row.message.type = "ai"
    IN  SelectSeq(n8nStore, Own)

\* fetchBotMessages has queried the table in this step
BotMessagesQueried ==
    /\ lastCall' # lastCall
    /\ lastCall'.name = "fetchBotMessages"
    /\ lastCall'.queried

\* C30: in the map a query of fetchBotMessages returns, the set of a contact holds only
\* fingerprints of assistant rows of that contact, and an outgoing text of the contact is
\* classified as it is from the assistant rows of the contact alone, whatever rows of
\* other contacts and of other roles the table holds
C30_AttributionIsolated ==
    [][BotMessagesQueried =>
          LET returned == lastCall'.outcome.value
          IN  /\ \A sessionId \in DOMAIN returned :
                    returned[sessionId] \subseteq
                        {normalizeMessageContent(AiRowsOf(sessionId)[r].message.content) :
                            r \in DOMAIN AiRowsOf(sessionId)}
              /\ \A sessionId \in {PhoneA, PhoneB}, content \in {TextHi, TextOk} :
                    checkIfBotMessage(content, sessionId, returned)
                        = checkIfBotMessage(content, sessionId,
                                            RebuildBotMessages(now, botMessagesCache, cacheTimestamp,
                                                               AiRowsOf(sessionId), {}).result)]_vars

\* the record the request keeps of provider message i
ClassifiedCopy(i) ==
    LET p == ProviderCopy(i)
    IN  IF p.message_type = "outgoing"
        THEN [p EXCEPT !.is_from_bot =
                          checkIfBotMessage(p.message_content, p.whatsapp_number, botMessages)]
        ELSE p

GenerationCopies(phone) == {s \in LogCopies(phone) : SourceOf(s) = "n8n"}

OutgoingLogCopies(phone) == {s \in LogCopies(phone) : SourceOf(s) = "conv"}

\* what fetchSupabaseMessages returns for a key over the stores as they are
LogTimeline(phone) == fetchSupabaseMessages(phone, n8nStore, convStore, {})

\* C25: where a provider message and a log message of one contact are duplicates, the
\* provider's record is returned as the request classified it, with its id, media key
\* and status, and the log record is not returned; where a generation-log record and an
\* outgoing-log record are duplicates, fetchSupabaseMessages returns the generation-log
\* record and not the other, and the outgoing-log record is in no conversation
C25_ProviderCopyWins ==
    (pc = "done" /\ down = {}) =>
        /\ \A i \in DOMAIN evoStore :
              InProviderWindow(i) =>
                  LET phone == ProviderCopy(i).whatsapp_number
                  IN  \A s \in LogCopies(phone) :
                          MergeDuplicate(ProviderCopy(i), s) =>
                              /\ [key |-> phone, msg |-> ClassifiedCopy(i)] \in OutputMessages
                              /\ s.id \notin OutputIds(phone)
        /\ \A phone \in SourceKeys :
              \A n \in GenerationCopies(phone), c \in OutgoingLogCopies(phone) :
                  LogDuplicate(n, c) =>
                      /\ n \in Range(LogTimeline(phone))
                      /\ c \notin Range(LogTimeline(phone))
                      /\ c.id \notin OutputIds(phone)

\* a provider reply whose generation-log copy was dropped, beside a later generation-log
\* row that was returned and whose outgoing-log copy was dropped
C25_Witness ==
    /\ pc = "done"
    /\ down = {}
    /\ \E i \in DOMAIN evoStore :
          /\ InProviderWindow(i)
          /\ \E s \in LogCopies(ProviderCopy(i).whatsapp_number) :
                /\ MergeDuplicate(ProviderCopy(i), s)
                /\ ProviderCopy(i).id \in OutputIds(ProviderCopy(i).whatsapp_number)
                /\ s.id \notin OutputIds(ProviderCopy(i).whatsapp_number)
    /\ \E n \in GenerationCopies(PhoneA), c \in OutgoingLogCopies(PhoneA) :
          /\ LogDuplicate(n, c)
          /\ n.id \in OutputIds(PhoneA)
          /\ c.id \notin OutputIds(PhoneA)

\* s has a copy from another source within a minute
HasCrossSourceCopy(s, phone) ==
    \E m \in ProviderCopies(phone) \cup LogCopies(phone) :
        /\ SourceOf(m) # SourceOf(s)
        /\ SameFingerprint(m, s)
        /\ Apart(m, s) < 60 * 1000

\* C24: a displayable log row that is not returned has a copy from another source
\* within a minute; and for a contact whose provider messages duplicate none of its log
\* rows, the log rows returned are those fetchSupabaseMessages returns for it, as for a
\* contact without provider messages
C24_OnlyCrossSourceDuplicates ==
    (pc = "done" /\ down = {}) =>
        \A phone \in SourceKeys :
            /\ \A s \in LogCopies(phone) :
                  s.id \notin OutputIds(phone) => HasCrossSourceCopy(s, phone)
            /\ (\A p \in ProviderCopies(phone), s \in LogCopies(phone) : ~MergeDuplicate(p, s)) =>
                  {o.msg : o \in {q \in OutputMessages : q.key = phone /\ FromLogs(q.msg)}}
                      = Range(LogTimeline(phone))

\* the rows of a table in another order
Reordered(store, f) == [i \in DOMAIN store |-> store[f[i]]]

\* C23: however the rows of the two log tables are ordered, fetchSupabaseMessages
\* returns the same messages in the same order for every key, and the request returns
\* the same conversations
C23_OrderIndependent ==
    (pc = "done" /\ down = {}) =>
        \A f \in Permutations(DOMAIN n8nStore), g \in Permutations(DOMAIN convStore) :
            /\ \A phone \in SourceKeys :
                  fetchSupabaseMessages(phone, Reordered(n8nStore, f), Reordered(convStore, g), {})
                      = LogTimeline(phone)
            /\ fetchGroupedConversations(evoStore, Reordered(n8nStore, f),
                                         Reordered(convStore, g), botMessages, now, {})
                  = grouped

\* C22: a message whose media fetch gave no media is not loading once no fetch of it is
\* awaited, unless its media is cached, and no fetch of it starts except by a click on
\* its load control
C22_FailedMediaWaitsForClick ==
    [][\A key \in failedMedia :
          /\ (mediaFetches[key] = 0 /\ ~MapHas(mediaCache, key)) => key \notin loadingMedia
          /\ mediaFetches'[key] > mediaFetches[key] =>
                lastEvent'.kind = "click" /\ lastEvent'.key = key]_vars

\* C28: no message key has two calls of fetchMediaBase64 awaited at once; no call starts
\* for a key that mediaCache holds; and once a load has started, its key leaves
\* loadingMedia, whatever the call's outcome
C28_OneFetchPerKey ==
    /\ [](\A key \in MessageKeys : mediaFetches[key] <= 1)
    /\ [][\A key \in MessageKeys :
             MapHas(mediaCache, key) => mediaFetches'[key] <= mediaFetches[key]]_vars
    /\ \A key \in MessageKeys : (mediaFetches[key] > 0) ~> (key \notin loadingMedia)

==============================================================================
